---- MODULE Spec2Model ----
(***************************************************************************)
(* MyDuka backend: role-scoped authorization and the inventory /           *)
(* transaction / supply-request ledgers, modelled from the Flask resource  *)
(* handlers.  Every request handler is one action; the database tables are *)
(* functions from primary key to row; the reply of the last request is     *)
(* kept in resp so that status codes and returned rows can be stated.      *)
(* Prices are Float columns in the source; the model draws them from small *)
(* non-negative integers, on which float arithmetic is exact.              *)
(***************************************************************************)
EXTENDS Integers, FiniteSets, Sequences, TLC

VARIABLES
    merchants,        \* table merchants:        id -> row
    admins,           \* table admins:           id -> row
    clerks,           \* table clerks:           id -> row
    stores,           \* table stores:           id -> row
    products,         \* table products:         id -> row
    inventory,        \* table inventory_records: id -> row
    transactions,     \* table transactions:     id -> row
    supply_requests,  \* table supply_requests:  id -> row
    seq,              \* autoincrement counters of the tables
    clock,            \* datetime.utcnow(), as a logical clock
    tokens,           \* JWTs issued by login and refresh, held by clients
    blacklist,        \* jti of the revoked tokens (auth/login.py blacklist)
    sessions,         \* in-flight requests (one SQLAlchemy session each)
    resp              \* reply of the last request

vars == <<merchants, admins, clerks, stores, products, inventory,
          transactions, supply_requests, seq, clock, tokens, blacklist,
          sessions, resp>>

accounts == <<merchants, admins, clerks>>
catalog  == <<stores, products>>
ledgers  == <<inventory, transactions, supply_requests, seq, clock>>

----------------------------------------------------------------------------
(* Bounds of the model *)

MaxQty == 2        \* largest quantity in a request body
MaxInv == 2        \* inventory records created through the API
MaxTx == 1         \* transactions created through the API
MaxPrice == 2      \* largest product price
NReq == 2          \* concurrent sale requests in flight
NSeedSR == 1       \* supply requests present after seeding
MaxSR == 1         \* supply requests created through the API
MaxJti == 6        \* tokens issued by login and refresh
MaxNew == 1        \* stores, Admins and Clerks created through the API

----------------------------------------------------------------------------
(* Values *)

None == 0          \* SQL NULL / Python None for integer keys (ids start at 1)

UserTypes == {"merchant", "admin", "clerk"}

Quantities == 0..MaxQty
Prices == {1, MaxPrice}
StoreIds == {1, 2}
ProductIds == {1}

\* The identity a token carries: the `sub` claim (the account's primary
\* key) and the user_type claim.
User(t, i) == [user_type |-> t, id |-> i]

\* A JWT: its identity, its type (access or refresh) and its jti.  The
\* tokens issued while the model runs are numbered from 1.
JWT(t, i, type, jti) == [user_type |-> t, id |-> i, type |-> type, jti |-> jti]

\* The access token a client holds from a login that precedes the first
\* state; these tokens carry the negative jti values, one per identity.
Tok(t, i) ==
    JWT(t, i, "access",
        0 - (i + (IF t = "merchant" THEN 0 ELSE IF t = "admin" THEN 10 ELSE 20)))

Reply(op, status, reason) ==
    [op |-> op, status |-> status, reason |-> reason, records |-> {}]

NoReply == Reply("none", 0, "none")

ReplyRows(op, rows) ==
    [op |-> op, status |-> 200, reason |-> "ok", records |-> rows]

Put(table, id, row) == [i \in DOMAIN table \cup {id} |->
                            IF i = id THEN row ELSE table[i]]

Remove(table, ids) == [i \in DOMAIN table \ ids |-> table[i]]

\* Rows of the account tables.  A request's username and email are drawn
\* together, so one name stands for both unique columns.
MerchantRow(name, password) ==
    [username |-> name, email |-> name, password |-> password,
     is_active |-> TRUE, is_superuser |-> TRUE]

AdminRow(name, password, merchant_id, store_id) ==
    [username |-> name, email |-> name, password |-> password,
     is_active |-> TRUE, merchant_id |-> merchant_id, store_id |-> store_id]

ClerkRow(name, password, admin_id, store_id) ==
    [username |-> name, email |-> name, password |-> password,
     is_active |-> TRUE, admin_id |-> admin_id, store_id |-> store_id]

\* A row of the stores table; the location column is written like the name
\* and is left out.
StoreRow(name, merchant_id) ==
    [name |-> name, is_active |-> TRUE, merchant_id |-> merchant_id]

----------------------------------------------------------------------------
(* app/auth/permissions.py: the guards look the token's identity up in one *)
(* table by primary key; the token's user_type claim is not consulted.     *)

\* mutant: the blacklist is not consulted
jwt_required_unrevoked(c) ==
    c \in tokens /\ c.type = "access"

\* @jwt_required() of flask_jwt_extended, as every resource handler uses
\* it: the request presents a token that was issued, the token is an
\* access token, and check_if_token_in_blacklist does not find its jti.
jwt_required(c) ==
    c \in tokens /\ c.type = "access" /\ c.jti \notin blacklist

merchant_required(c) ==
    c.id \in DOMAIN merchants /\ merchants[c.id].is_superuser

admin_required(c) == c.id \in DOMAIN admins

clerk_required(c) == c.id \in DOMAIN clerks

----------------------------------------------------------------------------
(* app/auth/login.py and app/models/merchant.py *)

\* app/utils/validators.py on the values the requests carry: one value
\* that validators.email refuses and one password without the required
\* character classes
validate_email(email) == email # "not-an-email"

validate_password(password) == password # "weak"

NoUser == [user_type |-> "none", id |-> None]

\* the table scanned first answers: Merchant, then Admin, then Clerk
find_user(email) ==
    IF \E i \in DOMAIN merchants : merchants[i].email = email
    THEN User("merchant",
              CHOOSE i \in DOMAIN merchants : merchants[i].email = email)
    ELSE IF \E i \in DOMAIN admins : admins[i].email = email
    THEN User("admin", CHOOSE i \in DOMAIN admins : admins[i].email = email)
    ELSE IF \E i \in DOMAIN clerks : clerks[i].email = email
    THEN User("clerk", CHOOSE i \in DOMAIN clerks : clerks[i].email = email)
    ELSE NoUser

user_row(u) ==
    IF u.user_type = "merchant" THEN merchants[u.id]
    ELSE IF u.user_type = "admin" THEN admins[u.id]
    ELSE clerks[u.id]

\* mutant: the account's state is tested before its password
login_reply_active_first(user, password) ==
    IF user = NoUser
    THEN Reply("login", 401, "InvalidCredentials")
    ELSE IF ~user_row(user).is_active
    THEN Reply("login", 403, "AccountInactive")
    ELSE IF user_row(user).password # password
    THEN Reply("login", 401, "InvalidCredentials")
    ELSE Reply("login", 200, "ok")

\* lines 66-70: the password is verified before is_active is read
login_reply(user, password) ==
    IF user = NoUser \/ user_row(user).password # password
    THEN Reply("login", 401, "InvalidCredentials")
    ELSE IF ~user_row(user).is_active
    THEN Reply("login", 403, "AccountInactive")
    ELSE Reply("login", 200, "ok")

\* the jti of the next token: create_access_token and
\* create_refresh_token draw a fresh identifier for every token
next_jti ==
    LET issued == {t.jti : t \in tokens} \cup {0}
    IN  1 + CHOOSE n \in issued : \A m \in issued : m <= n

\* UserLogin.post; "" is a missing email or password.  A successful login
\* issues an access token and a refresh token for the account.
Login(email, password) ==
    /\ UNCHANGED <<accounts, catalog, ledgers, blacklist, sessions>>
    /\ IF email = "" \/ password = "" \/ ~validate_email(email)
       THEN /\ resp' = Reply("login", 400, "ValidationFailed")
            /\ UNCHANGED tokens
       ELSE LET user == find_user(email)
                reply == login_reply(user, password)
            IN  /\ resp' = reply
                /\ IF reply.status = 200
                   THEN /\ next_jti + 1 <= MaxJti
                        /\ tokens' = tokens \cup
                            {JWT(user.user_type, user.id, "access", next_jti),
                             JWT(user.user_type, user.id, "refresh",
                                 next_jti + 1)}
                   ELSE UNCHANGED tokens

\* UserLogout.post: the jti of the presented access token joins the
\* blacklist
Logout(c) ==
    /\ jwt_required(c)
    /\ UNCHANGED <<accounts, catalog, ledgers, tokens, sessions>>
    /\ blacklist' = blacklist \cup {c.jti}
    /\ resp' = Reply("logout", 200, "ok")

\* @jwt_required(refresh=True): a refresh token that was issued and whose
\* jti is not in the blacklist
refresh_token_required(c) ==
    c \in tokens /\ c.type = "refresh" /\ c.jti \notin blacklist

\* TokenRefresh.post: a new access token with the identity and the
\* user_type of the presented refresh token
Refresh(c) ==
    /\ refresh_token_required(c)
    /\ next_jti <= MaxJti
    /\ UNCHANGED <<accounts, catalog, ledgers, blacklist, sessions>>
    /\ tokens' = tokens \cup {JWT(c.user_type, c.id, "access", next_jti)}
    /\ resp' = Reply("refresh", 200, "ok")

\* A request whose token verify_jwt_in_request refuses: an unknown,
\* revoked or wrongly typed token never reaches the handler.
JwtRejected(c, refresh) ==
    /\ IF refresh THEN ~refresh_token_required(c) ELSE ~jwt_required(c)
    /\ UNCHANGED <<accounts, catalog, ledgers, tokens, blacklist, sessions>>
    /\ resp' = Reply("jwt", 401, "Unauthenticated")

RegIdle == [pc |-> "idle", name |-> "", password |-> "", status |-> 0]

\* MerchantRegistration.post, lines 24-37: validate the body and test
\* Merchant.query.first()
MerchantRegisterBegin(r, name, password) ==
    /\ sessions[r].pc = "idle"
    /\ UNCHANGED <<accounts, catalog, ledgers, tokens, blacklist, resp>>
    /\ sessions' = [sessions EXCEPT ![r] =
            IF \/ name = "" \/ password = ""
               \/ ~validate_email(name) \/ ~validate_password(password)
            THEN [pc |-> "done", name |-> name, password |-> password,
                  status |-> 400]
            ELSE IF DOMAIN merchants # {}
            THEN [pc |-> "done", name |-> name, password |-> password,
                  status |-> 403]
            ELSE [pc |-> "checked", name |-> name, password |-> password,
                  status |-> 0]]

\* MerchantRegistration.post, lines 39-53: insert the row and commit; the
\* unique columns raise IntegrityError
MerchantRegisterCommit(r) ==
    /\ sessions[r].pc = "checked"
    /\ UNCHANGED <<admins, clerks, catalog, inventory, transactions,
                   supply_requests, clock, tokens, blacklist>>
    /\ IF \E i \in DOMAIN merchants : merchants[i].email = sessions[r].name
       THEN /\ resp' = Reply("merchant_register", 409, "Conflict")
            /\ sessions' = [sessions EXCEPT ![r].pc = "done",
                                            ![r].status = 409]
            /\ UNCHANGED <<merchants, seq>>
       ELSE /\ merchants' = Put(merchants, seq.merchants,
                    MerchantRow(sessions[r].name, sessions[r].password))
            /\ seq' = [seq EXCEPT !.merchants = @ + 1]
            /\ sessions' = [sessions EXCEPT ![r].pc = "done",
                                            ![r].status = 201]
            /\ resp' = Reply("merchant_register", 201, "ok")

\* MerchantResource.delete.  stores.merchant_id and products.merchant_id
\* are NOT NULL foreign keys without an ondelete rule: a Merchant that
\* still owns rows cannot be deleted, the commit fails and is rolled back.
MerchantDelete(c) ==
    /\ jwt_required(c)
    /\ UNCHANGED <<admins, clerks, catalog, ledgers, tokens, blacklist, sessions>>
    /\ IF ~merchant_required(c)
       THEN /\ resp' = Reply("merchant_delete", 403, "MerchantRequired")
            /\ UNCHANGED merchants
       ELSE IF \/ \E s \in DOMAIN stores : stores[s].merchant_id = c.id
               \/ \E p \in DOMAIN products : products[p].merchant_id = c.id
               \/ \E a \in DOMAIN admins : admins[a].merchant_id = c.id
       THEN /\ resp' = Reply("merchant_delete", 500, "Internal")
            /\ UNCHANGED merchants
       ELSE /\ merchants' = Remove(merchants, {c.id})
            /\ resp' = Reply("merchant_delete", 204, "ok")

----------------------------------------------------------------------------
(* Inventory ledger *)

\* mutant: the query ordered ascending, which returns the oldest record
oldest_inventory_record(product_id, store_id) ==
    LET rows == {i \in DOMAIN inventory :
                    /\ inventory[i].product_id = product_id
                    /\ inventory[i].store_id = store_id}
    IN  IF rows = {} THEN None
        ELSE CHOOSE i \in rows :
                \A j \in rows :
                    inventory[j].date_recorded >= inventory[i].date_recorded

\* Inventory.query.filter_by(product_id, store_id)
\*          .order_by(Inventory.date_recorded.desc()).first()
latest_inventory_record(product_id, store_id) ==
    LET rows == {i \in DOMAIN inventory :
                    /\ inventory[i].product_id = product_id
                    /\ inventory[i].store_id = store_id}
    IN  IF rows = {} THEN None
        ELSE CHOOSE i \in rows :
                \A j \in rows :
                    inventory[j].date_recorded <= inventory[i].date_recorded

\* mutant: a Clerk without a store is refused as well
clerk_not_assigned_to_store_strict(c, store_id) ==
    clerks[c.id].store_id # store_id

\* `clerk.store_id and clerk.store_id != store_id`: the Clerk has a store
\* and the request names another one
clerk_not_assigned_to_store(c, store_id) ==
    clerks[c.id].store_id # None /\ clerks[c.id].store_id # store_id

\* InventoryListResource.post: a Clerk records a receipt of goods.
RecordReceipt(c, product_id, store_id, quantity_received, items_spoilt, paid) ==
    /\ jwt_required(c)
    /\ UNCHANGED <<accounts, catalog, transactions, supply_requests,
                   tokens, blacklist, sessions>>
    /\ IF ~clerk_required(c)
       THEN /\ resp' = Reply("inventory_post", 403, "ClerkRequired")
            /\ UNCHANGED <<inventory, seq, clock>>
       ELSE IF quantity_received < 0 \/ items_spoilt < 0
       THEN /\ resp' = Reply("inventory_post", 400, "ValidationFailed")
            /\ UNCHANGED <<inventory, seq, clock>>
       ELSE IF product_id \notin DOMAIN products
       THEN /\ resp' = Reply("inventory_post", 404, "NotFound")
            /\ UNCHANGED <<inventory, seq, clock>>
       ELSE IF store_id \notin DOMAIN stores
       THEN /\ resp' = Reply("inventory_post", 404, "NotFound")
            /\ UNCHANGED <<inventory, seq, clock>>
       ELSE IF clerk_not_assigned_to_store(c, store_id)
       THEN /\ resp' = Reply("inventory_post", 403, "Forbidden")
            /\ UNCHANGED <<inventory, seq, clock>>
       ELSE /\ seq.inventory <= MaxInv
            /\ inventory' = Put(inventory, seq.inventory,
                [product_id |-> product_id,
                 store_id |-> store_id,
                 clerk_id |-> c.id,
                 quantity_received |-> quantity_received,
                 items_in_stock |-> quantity_received - items_spoilt,
                 items_spoilt |-> items_spoilt,
                 payment_status |-> paid,
                 buying_price_at_record |-> products[product_id].buying_price,
                 selling_price_at_record |-> products[product_id].selling_price,
                 date_recorded |-> clock])
            /\ seq' = [seq EXCEPT !.inventory = @ + 1]
            /\ clock' = clock + 1
            /\ resp' = Reply("inventory_post", 201, "ok")

(* Bodies of PUT /inventory/<id>.  A body is a record with one field per *)
(* key the handler looks for; Absent marks a key the body does not name  *)
(* and Unparsable a value on which int() / float() raise ValueError.     *)

Absent == -99
Unparsable == 98

InvBody(qr, stock, spoilt, pay, bp, sp) ==
    [quantity_received |-> qr, items_in_stock |-> stock,
     items_spoilt |-> spoilt, payment_status |-> pay,
     buying_price_at_record |-> bp, selling_price_at_record |-> sp]

\* 'key' in data, for a numeric key
Named(v) == v # Absent

\* 'payment_status' in data
NamedPayment(v) == v # "absent"

\* int(v) or float(v) raises ValueError, or the converted value is negative
rejected_number(v) == v # Absent /\ (v = Unparsable \/ v < 0)

assigned(old, v) == IF v = Absent THEN old ELSE v

\* mutant: payment_status missing from the keys a Clerk may not name
clerk_names_forbidden_key_without_payment(data) ==
    \/ Named(data.quantity_received)
    \/ Named(data.buying_price_at_record)
    \/ Named(data.selling_price_at_record)

\* line 232: the keys a Clerk may not name
clerk_names_forbidden_key(data) ==
    \/ NamedPayment(data.payment_status)
    \/ Named(data.quantity_received)
    \/ Named(data.buying_price_at_record)
    \/ Named(data.selling_price_at_record)

\* line 221: the keys an Admin may not name
admin_names_forbidden_key(data) ==
    \/ Named(data.quantity_received)
    \/ Named(data.items_in_stock)
    \/ Named(data.items_spoilt)
    \/ Named(data.buying_price_at_record)
    \/ Named(data.selling_price_at_record)

\* InventoryResource.put.  The handler assigns to the loaded row field by
\* field and returns early on the first rejected field; only the final
\* commit writes the row, and the request's session is discarded when the
\* request ends, so an early return leaves the table as it was.
InventoryPut(c, record_id, data) ==
    /\ jwt_required(c)
    /\ UNCHANGED <<accounts, catalog, transactions, supply_requests, seq,
                   clock, tokens, blacklist, sessions>>
    /\ LET Fail(status, reason) ==
              /\ resp' = Reply("inventory_put", status, reason)
              /\ UNCHANGED inventory
           Commit(row) ==
              /\ inventory' = [inventory EXCEPT ![record_id] = row]
              /\ resp' = Reply("inventory_put", 200, "ok")
       IN
       IF record_id \notin DOMAIN inventory
       THEN Fail(404, "NotFound")
       ELSE LET record == inventory[record_id]
                pay == IF NamedPayment(data.payment_status)
                       THEN data.payment_status = "true"
                       ELSE record.payment_status
            IN
            IF c.user_type = "merchant"
            THEN IF rejected_number(data.quantity_received)
                    \/ rejected_number(data.items_in_stock)
                    \/ rejected_number(data.items_spoilt)
                    \/ rejected_number(data.buying_price_at_record)
                    \/ rejected_number(data.selling_price_at_record)
                 THEN Fail(400, "ValidationFailed")
                 ELSE Commit([record EXCEPT
                        !.quantity_received =
                            assigned(@, data.quantity_received),
                        !.items_in_stock = assigned(@, data.items_in_stock),
                        !.items_spoilt = assigned(@, data.items_spoilt),
                        !.payment_status = pay,
                        !.buying_price_at_record =
                            assigned(@, data.buying_price_at_record),
                        !.selling_price_at_record =
                            assigned(@, data.selling_price_at_record)])
            ELSE IF c.user_type = "admin"
            THEN IF c.id \notin DOMAIN admins
                    \/ (admins[c.id].store_id # None
                        /\ admins[c.id].store_id # record.store_id)
                 THEN Fail(403, "Forbidden")
                 ELSE IF admin_names_forbidden_key(data)
                 THEN Fail(403, "AdminFieldsOnly")
                 ELSE IF ~NamedPayment(data.payment_status)
                 THEN Fail(400, "ValidationFailed")
                 ELSE Commit([record EXCEPT !.payment_status = pay])
            ELSE IF c.user_type = "clerk"
            THEN IF c.id \notin DOMAIN clerks \/ c.id # record.clerk_id
                 THEN Fail(403, "Forbidden")
                 ELSE IF clerk_names_forbidden_key(data)
                 THEN Fail(403, "ClerkFieldsOnly")
                 ELSE IF rejected_number(data.items_in_stock)
                         \/ rejected_number(data.items_spoilt)
                 THEN Fail(400, "ValidationFailed")
                 ELSE IF ~(Named(data.items_in_stock)
                           \/ Named(data.items_spoilt))
                 THEN Fail(400, "ValidationFailed")
                 ELSE Commit([record EXCEPT
                        !.items_in_stock = assigned(@, data.items_in_stock),
                        !.items_spoilt = assigned(@, data.items_spoilt)])
            ELSE Fail(403, "Forbidden")

----------------------------------------------------------------------------
(* app/models/products.py.  A body of PUT /products/<id> names            *)
(* buying_price and selling_price or leaves them out (Absent); a value    *)
(* that float() refuses is Unparsable.  The product's name, description   *)
(* and is_active are not part of the model's product rows.                *)

ProductBody(buying_price, selling_price) ==
    [buying_price |-> buying_price, selling_price |-> selling_price]

\* mutant: the update also rewrites the prices stored on the product's
\* inventory records
ProductPut_repricing(c, product_id, data) ==
    /\ jwt_required(c)
    /\ product_id \in DOMAIN products
    /\ ~rejected_number(data.buying_price)
    /\ ~rejected_number(data.selling_price)
    /\ UNCHANGED <<accounts, stores, transactions, supply_requests, seq,
                   clock, tokens, blacklist, sessions>>
    /\ products' = [products EXCEPT
            ![product_id].buying_price = assigned(@, data.buying_price),
            ![product_id].selling_price = assigned(@, data.selling_price)]
    /\ inventory' = [i \in DOMAIN inventory |->
            IF inventory[i].product_id = product_id
            THEN [inventory[i] EXCEPT
                    !.buying_price_at_record =
                        products'[product_id].buying_price,
                    !.selling_price_at_record =
                        products'[product_id].selling_price]
            ELSE inventory[i]]
    /\ resp' = Reply("product_put", 200, "ok")

\* ProductResource.put: the Merchant that owns the product, or an Admin of
\* that Merchant, changes the product's prices.  A rejected price returns
\* before the commit, so a price assigned earlier in the same request is
\* not persisted.
ProductPut(c, product_id, data) ==
    /\ jwt_required(c)
    /\ UNCHANGED <<accounts, stores, ledgers, tokens, blacklist, sessions>>
    /\ LET Fail(status, reason) ==
              /\ resp' = Reply("product_put", status, reason)
              /\ UNCHANGED products
       IN
       IF c.user_type \notin {"merchant", "admin"}
       THEN Fail(403, "MerchantOrAdminRequired")
       ELSE IF product_id \notin DOMAIN products
       THEN Fail(404, "NotFound")
       ELSE IF /\ c.user_type = "merchant"
               /\ products[product_id].merchant_id # c.id
       THEN Fail(403, "Forbidden")
       ELSE IF /\ c.user_type = "admin"
               /\ \/ c.id \notin DOMAIN admins
                  \/ products[product_id].merchant_id # admins[c.id].merchant_id
       THEN Fail(403, "Forbidden")
       ELSE IF rejected_number(data.buying_price)
       THEN Fail(400, "ValidationFailed")
       ELSE IF rejected_number(data.selling_price)
       THEN Fail(400, "ValidationFailed")
       ELSE /\ products' = [products EXCEPT
                    ![product_id].buying_price = assigned(@, data.buying_price),
                    ![product_id].selling_price = assigned(@, data.selling_price)]
            /\ resp' = Reply("product_put", 200, "ok")

----------------------------------------------------------------------------
(* Updates of stores and profiles: app/models/store.py, admin.py and      *)
(* clerk.py.  A body names a field or leaves it out ("absent", Absent).   *)
(* The handlers assign each field to the row loaded in the request's      *)
(* session as soon as it is accepted and return at the first field they   *)
(* reject; only db.session.commit() writes the session to the tables.     *)

\* isinstance(is_active, bool): "true" and "false" are the JSON booleans
is_bool(v) == v \in {"true", "false"}

\* mutant: the rows assigned in the session reach the table without commit
session_outcome_autocommit(stored, in_session, rejection) == in_session

\* the row in the table after the request: the session's row when the
\* handler reached db.session.commit() and it succeeded, the stored row
\* when the handler returned before it or the commit was rolled back
session_outcome(stored, in_session, rejection) ==
    IF rejection = NoReply THEN in_session ELSE stored

StoreBody(name, is_active) == [name |-> name, is_active |-> is_active]

\* StoreResource.put
StorePut(c, store_id, data) ==
    /\ jwt_required(c)
    /\ UNCHANGED <<accounts, products, ledgers, tokens, blacklist, sessions>>
    /\ LET is_merchant == merchant_required(c)
           admin_of_store == /\ c.id \in DOMAIN admins
                             /\ admins[c.id].store_id = store_id
       IN
       IF store_id \notin DOMAIN stores
       THEN /\ resp' = Reply("store_put", 404, "NotFound")
            /\ UNCHANGED stores
       ELSE IF ~(is_merchant \/ admin_of_store)
       THEN /\ resp' = Reply("store_put", 403, "Forbidden")
            /\ UNCHANGED stores
       ELSE LET store == stores[store_id]
                named == [store EXCEPT !.name =
                            IF data.name \in {"absent", ""} THEN @
                            ELSE data.name]
                toggled == IF is_bool(data.is_active) /\ is_merchant
                           THEN [named EXCEPT
                                    !.is_active = (data.is_active = "true")]
                           ELSE named
                rejection ==
                    IF /\ is_bool(data.is_active)
                       /\ ~is_merchant
                       /\ (data.is_active = "true") # store.is_active
                    THEN Reply("store_put", 403, "Forbidden")
                    ELSE IF \E s \in DOMAIN stores \ {store_id} :
                                stores[s].name = toggled.name
                    THEN Reply("store_put", 409, "Conflict")
                    ELSE NoReply
            IN  /\ stores' = Put(stores, store_id,
                                 session_outcome(store, toggled, rejection))
                /\ resp' = IF rejection = NoReply
                           THEN Reply("store_put", 200, "ok")
                           ELSE rejection

ProfileBody(username, email, password, is_active, store_id) ==
    [username |-> username, email |-> email, password |-> password,
     is_active |-> is_active, store_id |-> store_id]

\* the username, email and password of a profile body, assigned in that
\* order up to the first one rejected
profile_assigned(row, data) ==
    LET named == [row EXCEPT !.username =
                    IF data.username \in {"absent", ""} THEN @
                    ELSE data.username]
        mailed == IF data.email \in {"absent", ""} THEN named
                  ELSE [named EXCEPT !.email = data.email]
    IN  IF data.email \notin {"absent", ""} /\ ~validate_email(data.email)
        THEN named
        ELSE IF data.password \in {"absent", ""} \/ ~validate_password(data.password)
        THEN mailed
        ELSE [mailed EXCEPT !.password = data.password]

profile_rejected(data) ==
    \/ data.email \notin {"absent", ""} /\ ~validate_email(data.email)
    \/ data.password \notin {"absent", ""} /\ ~validate_password(data.password)

\* the unique username and email columns of an account table
profile_conflict(table, id, row) ==
    \E i \in DOMAIN table \ {id} :
        table[i].username = row.username \/ table[i].email = row.email

\* AdminResource.put; admin_id None is the caller's own profile
AdminPut(c, admin_id, data) ==
    /\ jwt_required(c)
    /\ UNCHANGED <<merchants, clerks, catalog, ledgers, tokens, blacklist, sessions>>
    /\ LET is_merchant == merchant_required(c)
           target == IF admin_id = None THEN c.id ELSE admin_id
       IN
       IF admin_id # None /\ ~is_merchant
       THEN /\ resp' = Reply("admin_put", 403, "MerchantRequired")
            /\ UNCHANGED admins
       ELSE IF target \notin DOMAIN admins
       THEN /\ resp' = Reply("admin_put", 404, "NotFound")
            /\ UNCHANGED admins
       ELSE LET admin == admins[target]
                filled == profile_assigned(admin, data)
                toggled == IF is_bool(data.is_active) /\ is_merchant
                           THEN [filled EXCEPT
                                    !.is_active = (data.is_active = "true")]
                           ELSE filled
                placed == IF data.store_id = Absent \/ ~is_merchant
                          THEN toggled
                          ELSE IF data.store_id = 0
                          THEN [toggled EXCEPT !.store_id = None]
                          ELSE IF \/ data.store_id \notin DOMAIN stores
                                  \/ stores[data.store_id].merchant_id # c.id
                          THEN toggled
                          ELSE [toggled EXCEPT !.store_id = data.store_id]
                rejection ==
                    IF profile_rejected(data)
                    THEN Reply("admin_put", 400, "ValidationFailed")
                    ELSE IF /\ is_bool(data.is_active)
                            /\ ~is_merchant
                            /\ (data.is_active = "true") # admin.is_active
                    THEN Reply("admin_put", 403, "Forbidden")
                    ELSE IF data.store_id # Absent /\ ~is_merchant
                    THEN Reply("admin_put", 403, "Forbidden")
                    ELSE IF /\ data.store_id \notin {Absent, 0}
                            /\ data.store_id \notin DOMAIN stores
                    THEN Reply("admin_put", 404, "NotFound")
                    ELSE IF /\ data.store_id \notin {Absent, 0}
                            /\ stores[data.store_id].merchant_id # c.id
                    THEN Reply("admin_put", 403, "Forbidden")
                    ELSE IF profile_conflict(admins, target, placed)
                    THEN Reply("admin_put", 409, "Conflict")
                    ELSE NoReply
            IN  /\ admins' = Put(admins, target,
                                 session_outcome(admin, placed, rejection))
                /\ resp' = IF rejection = NoReply
                           THEN Reply("admin_put", 200, "ok")
                           ELSE rejection

\* ClerkResource.put; clerk_id None is the caller's own profile
ClerkPut(c, clerk_id, data) ==
    /\ jwt_required(c)
    /\ UNCHANGED <<merchants, admins, catalog, ledgers, tokens, blacklist, sessions>>
    /\ LET is_merchant == merchant_required(c)
           is_admin == c.id \in DOMAIN admins
           target == IF clerk_id = None THEN c.id ELSE clerk_id
       IN
       IF clerk_id # None /\ ~(is_merchant \/ is_admin)
       THEN /\ resp' = Reply("clerk_put", 403, "AdminOrMerchantRequired")
            /\ UNCHANGED clerks
       ELSE IF target \notin DOMAIN clerks
       THEN /\ resp' = Reply("clerk_put", 404, "NotFound")
            /\ UNCHANGED clerks
       ELSE LET clerk == clerks[target]
                filled == profile_assigned(clerk, data)
                toggled == IF is_bool(data.is_active) /\ (is_merchant \/ is_admin)
                           THEN [filled EXCEPT
                                    !.is_active = (data.is_active = "true")]
                           ELSE filled
                rejection ==
                    IF profile_rejected(data)
                    THEN Reply("clerk_put", 400, "ValidationFailed")
                    ELSE IF /\ is_bool(data.is_active)
                            /\ ~(is_merchant \/ is_admin)
                            /\ (data.is_active = "true") # clerk.is_active
                    THEN Reply("clerk_put", 403, "Forbidden")
                    ELSE IF profile_conflict(clerks, target, toggled)
                    THEN Reply("clerk_put", 409, "Conflict")
                    ELSE NoReply
            IN  /\ clerks' = Put(clerks, target,
                                 session_outcome(clerk, toggled, rejection))
                /\ resp' = IF rejection = NoReply
                           THEN Reply("clerk_put", 200, "ok")
                           ELSE rejection

----------------------------------------------------------------------------
(* Creation of stores and accounts: StoreListResource.post,                *)
(* AdminRegistrationByMerchant.post and ClerkRegistrationByAdmin.post.     *)

\* the primary key of the next row of a table that has lost no row
next_id(table) ==
    LET ids == DOMAIN table \cup {0}
    IN  1 + CHOOSE n \in ids : \A m \in ids : m <= n

\* StoreListResource.post; "" is a missing name
StoreCreate(c, name) ==
    /\ jwt_required(c)
    /\ UNCHANGED <<accounts, products, ledgers, tokens, blacklist, sessions>>
    /\ IF ~merchant_required(c)
       THEN /\ resp' = Reply("store_post", 403, "MerchantRequired")
            /\ UNCHANGED stores
       ELSE IF name = ""
       THEN /\ resp' = Reply("store_post", 400, "ValidationFailed")
            /\ UNCHANGED stores
       ELSE IF \E s \in DOMAIN stores : stores[s].name = name
       THEN /\ resp' = Reply("store_post", 409, "Conflict")
            /\ UNCHANGED stores
       ELSE /\ next_id(stores) <= MaxNew
            /\ stores' = Put(stores, next_id(stores), StoreRow(name, c.id))
            /\ resp' = Reply("store_post", 201, "ok")

\* the body of a registration is refused
registration_rejected(name, password) ==
    \/ name = "" \/ password = ""
    \/ ~validate_email(name) \/ ~validate_password(password)

\* AdminRegistrationByMerchant.post: the new Admin has no store
AdminRegister(c, name, password) ==
    /\ jwt_required(c)
    /\ UNCHANGED <<merchants, clerks, catalog, ledgers, tokens, blacklist, sessions>>
    /\ IF ~merchant_required(c)
       THEN /\ resp' = Reply("admin_register", 403, "MerchantRequired")
            /\ UNCHANGED admins
       ELSE IF registration_rejected(name, password)
       THEN /\ resp' = Reply("admin_register", 400, "ValidationFailed")
            /\ UNCHANGED admins
       ELSE IF \E a \in DOMAIN admins : admins[a].email = name
       THEN /\ resp' = Reply("admin_register", 409, "Conflict")
            /\ UNCHANGED admins
       ELSE /\ next_id(admins) <= MaxNew
            /\ admins' = Put(admins, next_id(admins),
                             AdminRow(name, password, c.id, None))
            /\ resp' = Reply("admin_register", 201, "ok")

\* ClerkRegistrationByAdmin.post: Clerk(username, email, admin_id) names no
\* store
ClerkRegister(c, name, password) ==
    /\ jwt_required(c)
    /\ UNCHANGED <<merchants, admins, catalog, ledgers, tokens, blacklist, sessions>>
    /\ IF ~admin_required(c)
       THEN /\ resp' = Reply("clerk_register", 403, "AdminRequired")
            /\ UNCHANGED clerks
       ELSE IF registration_rejected(name, password)
       THEN /\ resp' = Reply("clerk_register", 400, "ValidationFailed")
            /\ UNCHANGED clerks
       ELSE IF \E k \in DOMAIN clerks : clerks[k].email = name
       THEN /\ resp' = Reply("clerk_register", 409, "Conflict")
            /\ UNCHANGED clerks
       ELSE /\ next_id(clerks) <= MaxNew
            /\ clerks' = Put(clerks, next_id(clerks),
                             ClerkRow(name, password, c.id, None))
            /\ resp' = Reply("clerk_register", 201, "ok")

----------------------------------------------------------------------------
(* Transaction ledger *)

\* mutant: only the missing row is rejected, the quantity is not compared
insufficient_stock_unchecked(rec, items_in_stock, quantity_sold) ==
    rec = None

\* the stock check of TransactionListResource.post, on the row the request
\* has read (rec = None when the query returned no row)
insufficient_stock(rec, items_in_stock, quantity_sold) ==
    rec = None \/ items_in_stock < quantity_sold

\* mutant: the revenue column receives the unit price
new_transaction_unit_revenue(c, product_id, store_id, quantity_sold) ==
    [product_id |-> product_id,
     store_id |-> store_id,
     clerk_id |-> c.id,
     quantity_sold |-> quantity_sold,
     selling_price_at_transaction |-> products[product_id].selling_price,
     total_revenue |-> products[product_id].selling_price]

new_transaction(c, product_id, store_id, quantity_sold) ==
    [product_id |-> product_id,
     store_id |-> store_id,
     clerk_id |-> c.id,
     quantity_sold |-> quantity_sold,
     selling_price_at_transaction |-> products[product_id].selling_price,
     total_revenue |-> products[product_id].selling_price * quantity_sold]

\* TransactionListResource.post up to the stock check: the reply of the
\* first check that fails, NoReply when all of them pass
sell_rejection(c, product_id, store_id, quantity_sold) ==
    LET rec == latest_inventory_record(product_id, store_id) IN
    IF ~clerk_required(c)
    THEN Reply("transaction_post", 403, "ClerkRequired")
    ELSE IF quantity_sold <= 0
    THEN Reply("transaction_post", 400, "ValidationFailed")
    ELSE IF product_id \notin DOMAIN products
    THEN Reply("transaction_post", 404, "NotFound")
    ELSE IF store_id \notin DOMAIN stores
    THEN Reply("transaction_post", 404, "NotFound")
    ELSE IF clerk_not_assigned_to_store(c, store_id)
    THEN Reply("transaction_post", 403, "Forbidden")
    ELSE IF insufficient_stock(rec,
                IF rec = None THEN 0 ELSE inventory[rec].items_in_stock,
                quantity_sold)
    THEN Reply("transaction_post", 400, "InsufficientStock")
    ELSE NoReply

\* TransactionListResource.post, executed without interference: a Clerk
\* records a sale; the transaction row and the decremented stock are
\* written by one commit.
Sell(c, product_id, store_id, quantity_sold) ==
    /\ jwt_required(c)
    /\ UNCHANGED <<accounts, catalog, supply_requests, clock, tokens, blacklist, sessions>>
    /\ LET rec == latest_inventory_record(product_id, store_id)
           rej == sell_rejection(c, product_id, store_id, quantity_sold)
       IN
       IF rej # NoReply
       THEN /\ resp' = rej
            /\ UNCHANGED <<inventory, transactions, seq>>
       ELSE /\ seq.transactions <= MaxTx
            /\ transactions' = Put(transactions, seq.transactions,
                new_transaction(c, product_id, store_id, quantity_sold))
            /\ inventory' = [inventory EXCEPT
                    ![rec].items_in_stock = @ - quantity_sold]
            /\ seq' = [seq EXCEPT !.transactions = @ + 1]
            /\ resp' = Reply("transaction_post", 201, "ok")

(* The same handler as two steps of a request that runs beside others.   *)
(* Each request has its own SQLAlchemy session: the row returned by the  *)
(* query is an object of that session, `items_in_stock -= quantity_sold` *)
(* is computed on the loaded value, and the commit writes that value     *)
(* with UPDATE ... SET items_in_stock = <value>.  No row is locked       *)
(* between the query and the commit (no with_for_update, no version      *)
(* column).                                                              *)

Idle == [pc |-> "idle", c |-> None, product_id |-> None, store_id |-> None,
         quantity_sold |-> 0, rec |-> None, items_in_stock |-> 0,
         selling_price |-> 0, status |-> 0]

\* lines 101-144: authenticate, validate, load product, store and the
\* latest inventory record, check the stock
SellBegin(r, c, product_id, store_id, quantity_sold) ==
    /\ jwt_required(c)
    /\ sessions[r].pc = "idle"
    /\ UNCHANGED <<accounts, catalog, ledgers, tokens, blacklist, resp>>
    /\ LET rec == latest_inventory_record(product_id, store_id)
           rej == sell_rejection(c, product_id, store_id, quantity_sold)
       IN
       IF rej # NoReply
       THEN sessions' = [sessions EXCEPT ![r] =
                [Idle EXCEPT !.pc = "done", !.c = c,
                             !.product_id = product_id,
                             !.store_id = store_id,
                             !.quantity_sold = quantity_sold,
                             !.status = rej.status]]
       ELSE sessions' = [sessions EXCEPT ![r] =
                [pc |-> "checked", c |-> c, product_id |-> product_id,
                 store_id |-> store_id, quantity_sold |-> quantity_sold,
                 rec |-> rec,
                 items_in_stock |-> inventory[rec].items_in_stock,
                 selling_price |-> products[product_id].selling_price,
                 status |-> 0]]

\* lines 146-166: add the transaction, write the decremented stock, commit
SellCommit(r) ==
    /\ sessions[r].pc = "checked"
    /\ UNCHANGED <<accounts, catalog, supply_requests, clock, tokens, blacklist>>
    /\ LET q == sessions[r].quantity_sold IN
       /\ transactions' = Put(transactions, seq.transactions,
            [product_id |-> sessions[r].product_id,
             store_id |-> sessions[r].store_id,
             clerk_id |-> sessions[r].c.id,
             quantity_sold |-> q,
             selling_price_at_transaction |-> sessions[r].selling_price,
             total_revenue |-> sessions[r].selling_price * q])
       /\ inventory' = [inventory EXCEPT ![sessions[r].rec].items_in_stock =
                            sessions[r].items_in_stock - q]
       /\ seq' = [seq EXCEPT !.transactions = @ + 1]
       /\ sessions' = [sessions EXCEPT ![r].pc = "done", ![r].status = 201]
       /\ resp' = Reply("transaction_post", 201, "ok")

----------------------------------------------------------------------------
(* Supply request workflow *)

Statuses == {"Pending", "Approved", "Declined", "Fulfilled"}

valid_statuses == {"Approved", "Declined", "Fulfilled"}

\* A request body is a record that carries every key the handler looks
\* for; a key the body does not name holds "absent".
SRBody(status, notes) == [status |-> status, notes |-> notes]

\* mutant: the Clerk's store is not looked at
clerk_has_store_unchecked(c) == TRUE

\* `clerk.store_id` of SupplyRequestListResource.post, line 134
clerk_has_store(c) == clerks[c.id].store_id # None

\* SupplyRequestListResource.post: a Clerk asks for a restock of its store.
SupplyRequestCreate(c, product_id, quantity_requested, notes) ==
    /\ jwt_required(c)
    /\ UNCHANGED <<accounts, catalog, inventory, transactions, clock,
                   tokens, blacklist, sessions>>
    /\ IF ~clerk_required(c)
       THEN /\ resp' = Reply("supply_request_post", 403, "ClerkRequired")
            /\ UNCHANGED <<supply_requests, seq>>
       ELSE IF quantity_requested <= 0
       THEN /\ resp' = Reply("supply_request_post", 400, "ValidationFailed")
            /\ UNCHANGED <<supply_requests, seq>>
       ELSE IF product_id \notin DOMAIN products
       THEN /\ resp' = Reply("supply_request_post", 404, "NotFound")
            /\ UNCHANGED <<supply_requests, seq>>
       ELSE IF ~clerk_has_store(c)
       THEN /\ resp' = Reply("supply_request_post", 403, "Forbidden")
            /\ UNCHANGED <<supply_requests, seq>>
       ELSE /\ seq.supply_requests <= NSeedSR + MaxSR
            /\ supply_requests' = Put(supply_requests, seq.supply_requests,
                [product_id |-> product_id,
                 store_id |-> clerks[c.id].store_id,
                 requested_by_clerk_id |-> c.id,
                 approved_by_admin_id |-> None,
                 quantity_requested |-> quantity_requested,
                 status |-> "Pending",
                 notes |-> notes,
                 response_date |-> None])
            /\ seq' = [seq EXCEPT !.supply_requests = @ + 1]
            /\ resp' = Reply("supply_request_post", 201, "ok")

\* SupplyRequestResource.put reads `status` at line 204, but neither the
\* method nor the module binds that name (the body is read into `data` and
\* only `notes` is taken from it): evaluating it raises NameError.
status_bound == FALSE

\* SupplyRequestResource.put: an Admin answers a supply request.
SupplyRequestPut(c, request_id, data) ==
    /\ jwt_required(c)
    /\ UNCHANGED <<accounts, catalog, inventory, transactions, seq,
                   tokens, blacklist, sessions>>
    /\ IF ~admin_required(c)
       THEN /\ resp' = Reply("supply_request_put", 403, "AdminRequired")
            /\ UNCHANGED <<supply_requests, clock>>
       ELSE IF request_id \notin DOMAIN supply_requests
       THEN /\ resp' = Reply("supply_request_put", 404, "NotFound")
            /\ UNCHANGED <<supply_requests, clock>>
       ELSE IF /\ admins[c.id].store_id # None
               /\ admins[c.id].store_id # supply_requests[request_id].store_id
       THEN /\ resp' = Reply("supply_request_put", 403, "Forbidden")
            /\ UNCHANGED <<supply_requests, clock>>
       ELSE IF ~status_bound
       THEN \* NameError leaves the handler: reply 500, nothing was assigned
            /\ resp' = Reply("supply_request_put", 500, "Internal")
            /\ UNCHANGED <<supply_requests, clock>>
       ELSE LET req == supply_requests[request_id]
                notes == IF data.notes = "absent" THEN req.notes
                         ELSE data.notes
                status == data.status
            IN
            IF status = "absent"
            THEN /\ resp' = Reply("supply_request_put", 400, "ValidationFailed")
                 /\ UNCHANGED <<supply_requests, clock>>
            ELSE IF status \notin valid_statuses
            THEN /\ resp' = Reply("supply_request_put", 400, "ValidationFailed")
                 /\ UNCHANGED <<supply_requests, clock>>
            ELSE IF req.status \in {"Fulfilled", "Declined"}
                    /\ status # req.status
            THEN /\ resp' = Reply("supply_request_put", 400, "InvalidTransition")
                 /\ UNCHANGED <<supply_requests, clock>>
            ELSE /\ supply_requests' = [supply_requests EXCEPT
                        ![request_id].status = status,
                        ![request_id].notes = notes,
                        ![request_id].approved_by_admin_id = c.id,
                        ![request_id].response_date = clock]
                 /\ clock' = clock + 1
                 /\ resp' = Reply("supply_request_put", 200, "ok")

\* SupplyRequestResource.delete
SupplyRequestDelete(c, request_id) ==
    /\ jwt_required(c)
    /\ UNCHANGED <<accounts, catalog, inventory, transactions, seq, clock,
                   tokens, blacklist, sessions>>
    /\ IF ~merchant_required(c)
       THEN /\ resp' = Reply("supply_request_delete", 403, "MerchantRequired")
            /\ UNCHANGED supply_requests
       ELSE IF request_id \notin DOMAIN supply_requests
       THEN /\ resp' = Reply("supply_request_delete", 404, "NotFound")
            /\ UNCHANGED supply_requests
       ELSE /\ supply_requests' = Remove(supply_requests, {request_id})
            /\ resp' = Reply("supply_request_delete", 204, "ok")

----------------------------------------------------------------------------
(* Deletions.  The guards are those of app/auth/permissions.py; the      *)
(* foreign keys of the ledger tables carry ondelete='SET NULL' towards    *)
(* clerks and ondelete='CASCADE' towards products.                        *)

\* TransactionResource.delete
TransactionDelete(c, transaction_id) ==
    /\ jwt_required(c)
    /\ UNCHANGED <<accounts, catalog, inventory, supply_requests, seq, clock,
                   tokens, blacklist, sessions>>
    /\ IF ~merchant_required(c)
       THEN /\ resp' = Reply("transaction_delete", 403, "MerchantRequired")
            /\ UNCHANGED transactions
       ELSE IF transaction_id \notin DOMAIN transactions
       THEN /\ resp' = Reply("transaction_delete", 404, "NotFound")
            /\ UNCHANGED transactions
       ELSE /\ transactions' = Remove(transactions, {transaction_id})
            /\ resp' = Reply("transaction_delete", 204, "ok")

\* InventoryResource.delete
InventoryDelete(c, record_id) ==
    /\ jwt_required(c)
    /\ UNCHANGED <<accounts, catalog, transactions, supply_requests, seq,
                   clock, tokens, blacklist, sessions>>
    /\ IF ~merchant_required(c)
       THEN /\ resp' = Reply("inventory_delete", 403, "MerchantRequired")
            /\ UNCHANGED inventory
       ELSE IF record_id \notin DOMAIN inventory
       THEN /\ resp' = Reply("inventory_delete", 404, "NotFound")
            /\ UNCHANGED inventory
       ELSE /\ inventory' = Remove(inventory, {record_id})
            /\ resp' = Reply("inventory_delete", 204, "ok")

\* ClerkResource.delete: the caller's id is looked up among the merchants
\* and among the admins; the deleted Clerk's ledger rows keep a null key
ClerkDelete(c, clerk_id) ==
    /\ jwt_required(c)
    /\ UNCHANGED <<merchants, admins, catalog, seq, clock, tokens, blacklist, sessions>>
    /\ LET is_merchant == c.id \in DOMAIN merchants
                            /\ merchants[c.id].is_superuser
           is_admin == c.id \in DOMAIN admins
       IN
       IF ~(is_merchant \/ is_admin)
       THEN /\ resp' = Reply("clerk_delete", 403, "AdminOrMerchantRequired")
            /\ UNCHANGED <<clerks, inventory, transactions, supply_requests>>
       ELSE IF clerk_id \notin DOMAIN clerks
       THEN /\ resp' = Reply("clerk_delete", 404, "NotFound")
            /\ UNCHANGED <<clerks, inventory, transactions, supply_requests>>
       ELSE /\ clerks' = Remove(clerks, {clerk_id})
            /\ inventory' = [i \in DOMAIN inventory |->
                    IF inventory[i].clerk_id = clerk_id
                    THEN [inventory[i] EXCEPT !.clerk_id = None]
                    ELSE inventory[i]]
            /\ transactions' = [i \in DOMAIN transactions |->
                    IF transactions[i].clerk_id = clerk_id
                    THEN [transactions[i] EXCEPT !.clerk_id = None]
                    ELSE transactions[i]]
            /\ supply_requests' = [i \in DOMAIN supply_requests |->
                    IF supply_requests[i].requested_by_clerk_id = clerk_id
                    THEN [supply_requests[i] EXCEPT
                            !.requested_by_clerk_id = None]
                    ELSE supply_requests[i]]
            /\ resp' = Reply("clerk_delete", 204, "ok")

\* ProductResource.delete.  Product.inventories is a relationship without
\* a delete cascade: the unit of work first sets product_id of the
\* product's inventory rows to NULL, the column is NOT NULL, the flush
\* raises IntegrityError and the handler rolls back and answers 500.
\* Without inventory rows the product row goes, and the database removes
\* the transactions and supply requests that reference it.
ProductDelete(c, product_id) ==
    /\ jwt_required(c)
    /\ UNCHANGED <<accounts, stores, inventory, seq, clock, tokens, blacklist, sessions>>
    /\ LET Fail(status, reason) ==
              /\ resp' = Reply("product_delete", status, reason)
              /\ UNCHANGED <<products, transactions, supply_requests>>
       IN
       IF ~merchant_required(c)
       THEN Fail(403, "MerchantRequired")
       ELSE IF product_id \notin DOMAIN products
       THEN Fail(404, "NotFound")
       ELSE IF products[product_id].merchant_id # c.id
       THEN Fail(403, "Forbidden")
       ELSE IF \E i \in DOMAIN inventory :
                    inventory[i].product_id = product_id
       THEN Fail(500, "Internal")
       ELSE /\ products' = Remove(products, {product_id})
            /\ transactions' = Remove(transactions,
                    {i \in DOMAIN transactions :
                        transactions[i].product_id = product_id})
            /\ supply_requests' = Remove(supply_requests,
                    {i \in DOMAIN supply_requests :
                        supply_requests[i].product_id = product_id})
            /\ resp' = Reply("product_delete", 204, "ok")

\* StoreResource.delete.  Store.inventories is a relationship without a
\* delete cascade, like Product.inventories: with inventory rows in the
\* store the flush sets their store_id to NULL, the column is NOT NULL and
\* the handler rolls back and answers 500.  The store_id columns of admins
\* and clerks carry no delete rule in the data model, so a store that an
\* Admin or a Clerk is assigned to is refused by the database as well.
\* Otherwise the store row goes, and the database removes the transactions
\* and supply requests that reference it.
StoreDelete(c, store_id) ==
    /\ jwt_required(c)
    /\ UNCHANGED <<accounts, products, inventory, seq, clock, tokens, blacklist, sessions>>
    /\ LET Fail(status, reason) ==
              /\ resp' = Reply("store_delete", status, reason)
              /\ UNCHANGED <<stores, transactions, supply_requests>>
       IN
       IF ~merchant_required(c)
       THEN Fail(403, "MerchantRequired")
       ELSE IF store_id \notin DOMAIN stores
       THEN Fail(404, "NotFound")
       ELSE IF \/ \E i \in DOMAIN inventory : inventory[i].store_id = store_id
               \/ \E a \in DOMAIN admins : admins[a].store_id = store_id
               \/ \E k \in DOMAIN clerks : clerks[k].store_id = store_id
       THEN Fail(500, "Internal")
       ELSE /\ stores' = Remove(stores, {store_id})
            /\ transactions' = Remove(transactions,
                    {i \in DOMAIN transactions :
                        transactions[i].store_id = store_id})
            /\ supply_requests' = Remove(supply_requests,
                    {i \in DOMAIN supply_requests :
                        supply_requests[i].store_id = store_id})
            /\ resp' = Reply("store_delete", 204, "ok")

\* AdminResource.delete: the supply requests the Admin answered and the
\* Clerks the Admin registered keep their rows with a null key
AdminDelete(c, admin_id) ==
    /\ jwt_required(c)
    /\ UNCHANGED <<merchants, catalog, inventory, transactions, seq, clock,
                   tokens, blacklist, sessions>>
    /\ IF ~merchant_required(c)
       THEN /\ resp' = Reply("admin_delete", 403, "MerchantRequired")
            /\ UNCHANGED <<admins, clerks, supply_requests>>
       ELSE IF admin_id \notin DOMAIN admins
       THEN /\ resp' = Reply("admin_delete", 404, "NotFound")
            /\ UNCHANGED <<admins, clerks, supply_requests>>
       ELSE /\ admins' = Remove(admins, {admin_id})
            /\ clerks' = [k \in DOMAIN clerks |->
                    IF clerks[k].admin_id = admin_id
                    THEN [clerks[k] EXCEPT !.admin_id = None]
                    ELSE clerks[k]]
            /\ supply_requests' = [i \in DOMAIN supply_requests |->
                    IF supply_requests[i].approved_by_admin_id = admin_id
                    THEN [supply_requests[i] EXCEPT
                            !.approved_by_admin_id = None]
                    ELSE supply_requests[i]]
            /\ resp' = Reply("admin_delete", 204, "ok")

----------------------------------------------------------------------------
(* Listings and reports.  A reply's records are the primary keys of the  *)
(* rows the handler serialises (listings) or aggregates (reports); the    *)
(* requests carry no start_date / end_date, and every row of the model    *)
(* lies inside the sales report's default window of thirty days.          *)

\* The query the three list handlers build after the user_type test:
\* an Admin's rows are those of its store, a Clerk's the rows it owns.
list_query(op, c, table, owned) ==
    IF c.user_type \notin UserTypes
    THEN Reply(op, 403, "Forbidden")
    ELSE IF c.user_type = "admin"
    THEN IF c.id \notin DOMAIN admins
         THEN Reply(op, 404, "NotFound")
         ELSE IF admins[c.id].store_id # None
         THEN ReplyRows(op, {i \in DOMAIN table :
                                table[i].store_id = admins[c.id].store_id})
         ELSE Reply(op, 403, "AdminUnassigned")
    ELSE IF c.user_type = "clerk"
    THEN IF c.id \notin DOMAIN clerks
         THEN Reply(op, 404, "NotFound")
         ELSE ReplyRows(op, owned)
    ELSE ReplyRows(op, DOMAIN table)

Read(c, reply) ==
    /\ jwt_required(c)
    /\ resp' = reply
    /\ UNCHANGED <<accounts, catalog, ledgers, tokens, blacklist, sessions>>

\* InventoryListResource.get
InventoryList(c) ==
    Read(c, list_query("inventory_list", c, inventory,
            {i \in DOMAIN inventory : inventory[i].clerk_id = c.id}))

\* TransactionListResource.get
TransactionList(c) ==
    Read(c, list_query("transaction_list", c, transactions,
            {i \in DOMAIN transactions : transactions[i].clerk_id = c.id}))

\* SupplyRequestListResource.get
SupplyRequestList(c) ==
    Read(c, list_query("supply_request_list", c, supply_requests,
            {i \in DOMAIN supply_requests :
                supply_requests[i].requested_by_clerk_id = c.id}))

\* the permission check of the by-id reads (InventoryResource.get,
\* TransactionResource.get, SupplyRequestResource.get); owner is the
\* clerk_id or the requested_by_clerk_id of the row
record_query(op, c, table, id, owner) ==
    IF id \notin DOMAIN table
    THEN Reply(op, 404, "NotFound")
    ELSE IF c.user_type = "merchant"
    THEN ReplyRows(op, {id})
    ELSE IF c.user_type = "admin"
    THEN IF c.id \notin DOMAIN admins
            \/ (admins[c.id].store_id # None
                /\ admins[c.id].store_id # table[id].store_id)
         THEN Reply(op, 403, "Forbidden")
         ELSE ReplyRows(op, {id})
    ELSE IF c.user_type = "clerk"
    THEN IF c.id \notin DOMAIN clerks \/ c.id # owner
         THEN Reply(op, 403, "Forbidden")
         ELSE ReplyRows(op, {id})
    ELSE Reply(op, 403, "Forbidden")

\* InventoryResource.get
InventoryGet(c, id) ==
    Read(c, record_query("inventory_get", c, inventory, id,
            IF id \in DOMAIN inventory THEN inventory[id].clerk_id ELSE None))

\* TransactionResource.get
TransactionGet(c, id) ==
    Read(c, record_query("transaction_get", c, transactions, id,
            IF id \in DOMAIN transactions
            THEN transactions[id].clerk_id ELSE None))

\* SupplyRequestResource.get
SupplyRequestGet(c, id) ==
    Read(c, record_query("supply_request_get", c, supply_requests, id,
            IF id \in DOMAIN supply_requests
            THEN supply_requests[id].requested_by_clerk_id ELSE None))

Query(rows) == [error |-> FALSE, status |-> 200, reason |-> "ok",
                rows |-> rows]
NoQuery(status, reason) == [error |-> TRUE, status |-> status,
                            reason |-> reason, rows |-> {}]

\* mutant: an Admin without a store gets the unfiltered query
get_authorized_query_any_admin(c, table) ==
    IF c.user_type = "merchant"
    THEN Query(DOMAIN table)
    ELSE IF c.user_type = "admin"
    THEN IF c.id \notin DOMAIN admins
         THEN NoQuery(404, "NotFound")
         ELSE IF admins[c.id].store_id = None
         THEN Query(DOMAIN table)
         ELSE Query({i \in DOMAIN table :
                        table[i].store_id = admins[c.id].store_id})
    ELSE NoQuery(403, "Forbidden")

\* BaseReportResource.get_authorized_query
get_authorized_query(c, table) ==
    IF c.user_type = "merchant"
    THEN Query(DOMAIN table)
    ELSE IF c.user_type = "admin"
    THEN IF c.id \notin DOMAIN admins
         THEN NoQuery(404, "NotFound")
         ELSE IF admins[c.id].store_id = None
         THEN NoQuery(403, "AdminUnassigned")
         ELSE Query({i \in DOMAIN table :
                        table[i].store_id = admins[c.id].store_id})
    ELSE NoQuery(403, "Forbidden")

ReportTypes == {"daily", "weekly", "monthly", "annual"}

\* SalesReportResource.get
SalesReport(c, report_type) ==
    LET query == get_authorized_query(c, transactions) IN
    Read(c, IF query.error
            THEN Reply("sales_report", query.status, query.reason)
            ELSE IF report_type \notin ReportTypes
            THEN Reply("sales_report", 400, "ValidationFailed")
            ELSE ReplyRows("sales_report", query.rows))

\* StockReportResource.get: per (product, store) the newest record in scope;
\* a filter of 0 is the absent (or zero) query parameter
StockReport(c, product_id, store_id) ==
    LET query == get_authorized_query(c, inventory)
        rows == {i \in query.rows :
                    /\ product_id # None
                            => inventory[i].product_id = product_id
                    /\ store_id # None => inventory[i].store_id = store_id}
    IN
    Read(c, IF query.error
            THEN Reply("stock_report", query.status, query.reason)
            ELSE ReplyRows("stock_report",
                    {i \in rows : \A j \in rows :
                        ( /\ inventory[j].product_id = inventory[i].product_id
                          /\ inventory[j].store_id = inventory[i].store_id )
                        => inventory[j].date_recorded
                                <= inventory[i].date_recorded}))

\* SpoiltItemsReportResource.get
SpoiltItemsReport(c) ==
    LET query == get_authorized_query(c, inventory) IN
    Read(c, IF query.error
            THEN Reply("spoilt_items_report", query.status, query.reason)
            ELSE ReplyRows("spoilt_items_report",
                    {i \in query.rows :
                        /\ inventory[i].items_spoilt > 0
                        /\ inventory[i].product_id \in DOMAIN products
                        /\ inventory[i].store_id \in DOMAIN stores}))

PaymentFilters == {"absent", "paid", "unpaid"}

\* PaymentStatusReportResource.get
PaymentStatusReport(c, payment_status_filter) ==
    LET query == get_authorized_query(c, inventory) IN
    Read(c, IF query.error
            THEN Reply("payment_status_report", query.status, query.reason)
            ELSE IF payment_status_filter \notin PaymentFilters
            THEN Reply("payment_status_report", 400, "ValidationFailed")
            ELSE ReplyRows("payment_status_report",
                    {i \in query.rows :
                        /\ payment_status_filter = "paid"
                                => inventory[i].payment_status
                        /\ payment_status_filter = "unpaid"
                                => ~inventory[i].payment_status
                        /\ inventory[i].product_id \in DOMAIN products
                        /\ inventory[i].store_id \in DOMAIN stores}))

----------------------------------------------------------------------------
(* Initial states *)

\* seed.py, scaled down: one Merchant, two Stores, a Product, an Admin and
\* a Clerk per store (the Clerk inherits the Admin's store); plus an Admin
\* registered by the Merchant and a Clerk registered by an Admin through
\* the API, which leaves their store_id NULL.
SeededAccounts ==
    /\ merchants = (1 :> MerchantRow("m", "pw"))
    /\ stores = (1 :> StoreRow("s1", 1)) @@ (2 :> StoreRow("s2", 1))
    /\ admins = (1 :> AdminRow("a1", "pw", 1, 1)) @@
                (2 :> AdminRow("a2", "pw", 1, 2)) @@
                (3 :> AdminRow("a3", "pw", 1, None))
    /\ clerks = (1 :> ClerkRow("c1", "pw", 1, 1)) @@
                (2 :> ClerkRow("c2", "pw", 2, 2)) @@
                (3 :> ClerkRow("c3", "pw", 3, None))
    /\ \E sp \in Prices :
         products = [p \in ProductIds |->
                       [buying_price |-> 1, selling_price |-> sp,
                        merchant_id |-> 1]]
    /\ tokens = {Tok("merchant", 1)}
                \cup {Tok("admin", i) : i \in 1..3}
                \cup {Tok("clerk", i) : i \in 1..3}
    /\ blacklist = {}

EmptyLedgers ==
    /\ inventory = << >>
    /\ transactions = << >>
    /\ supply_requests = << >>
    /\ seq = [merchants |-> 2, inventory |-> 1, transactions |-> 1, supply_requests |-> 1]
    /\ clock = 1

Init ==
    /\ SeededAccounts
    /\ EmptyLedgers
    /\ sessions = << >>
    /\ resp = NoReply

\* Spec: receipts recorded by the unassigned Clerk, sales by the Clerk of
\* store 1 and by the unassigned Clerk.
Next ==
    \/ \E s \in StoreIds, qr \in {-1, 0, MaxQty} :
            RecordReceipt(Tok("clerk", 3), 1, s, qr, 0, FALSE)
    \/ \E c \in {Tok("clerk", 1), Tok("clerk", 3)}, p \in ProductIds \cup {2},
          s \in StoreIds, q \in Quantities :
            Sell(c, p, s, q)

Spec == Init /\ [][Next]_vars

\* SpecConc: one inventory record of store 1, created by a receipt of
\* 0..MaxQty units, and NReq sale requests that run beside each other.
InitConc ==
    /\ SeededAccounts
    /\ \E qr \in 0..MaxQty :
         inventory = (1 :> [product_id |-> 1, store_id |-> 1, clerk_id |-> 1,
                            quantity_received |-> qr, items_in_stock |-> qr,
                            items_spoilt |-> 0, payment_status |-> FALSE,
                            buying_price_at_record |-> products[1].buying_price,
                            selling_price_at_record |-> products[1].selling_price,
                            date_recorded |-> 1])
    /\ transactions = << >>
    /\ supply_requests = << >>
    /\ seq = [merchants |-> 2, inventory |-> 2, transactions |-> 1, supply_requests |-> 1]
    /\ clock = 2
    /\ sessions = [r \in 1..NReq |-> Idle]
    /\ resp = NoReply

NextConc ==
    \/ \E r \in 1..NReq, q \in 0..MaxQty :
            SellBegin(r, Tok("clerk", 1), 1, 1, q)
    \/ \E r \in 1..NReq : SellCommit(r)

SpecConc == InitConc /\ [][NextConc]_vars

\* seed.py lines 235-265: a seeded supply request of a seeded Clerk's
\* store, with a random status; an answered one carries a random seeded
\* Admin and a response date
SeededSupplyRequest(clerk_id, status, admin_id) ==
    [product_id |-> 1,
     store_id |-> clerks[clerk_id].store_id,
     requested_by_clerk_id |-> clerk_id,
     approved_by_admin_id |-> IF status = "Pending" THEN None ELSE admin_id,
     quantity_requested |-> 1,
     status |-> status,
     notes |-> "seed",
     response_date |-> IF status = "Pending" THEN None ELSE 1]

\* SpecSR: the seeded accounts and NSeedSR seeded supply requests.
InitSR ==
    /\ SeededAccounts
    /\ inventory = << >>
    /\ transactions = << >>
    /\ \E k \in [1..NSeedSR -> {1, 2}], st \in [1..NSeedSR -> Statuses],
          a \in [1..NSeedSR -> {1, 2}] :
         supply_requests =
            [i \in 1..NSeedSR |-> SeededSupplyRequest(k[i], st[i], a[i])]
    /\ seq = [merchants |-> 2, inventory |-> 1, transactions |-> 1,
              supply_requests |-> NSeedSR + 1]
    /\ clock = 2
    /\ sessions = << >>
    /\ resp = NoReply

SRBodies ==
    {SRBody(st, nt) :
        st \in {"absent", "Approved", "Declined", "Fulfilled", "Bogus"},
        nt \in {"absent", "new"}}

NextSR ==
    \/ \E c \in tokens, id \in 1..(NSeedSR + MaxSR), data \in SRBodies :
            SupplyRequestPut(c, id, data)
    \/ \E c \in {Tok("clerk", 1), Tok("clerk", 2), Tok("clerk", 3)},
          q \in 0..1 :
            SupplyRequestCreate(c, 1, q, "new")
    \/ \E c \in {Tok("merchant", 1), Tok("clerk", 2)},
          id \in 1..(NSeedSR + MaxSR) :
            SupplyRequestDelete(c, id)

SpecSR == InitSR /\ [][NextSR]_vars

\* A row of inventory as InventoryListResource.post leaves it
ReceivedRecord(clerk_id, store_id, quantity_received, date) ==
    [product_id |-> 1, store_id |-> store_id, clerk_id |-> clerk_id,
     quantity_received |-> quantity_received,
     items_in_stock |-> quantity_received, items_spoilt |-> 0,
     payment_status |-> FALSE,
     buying_price_at_record |-> products[1].buying_price,
     selling_price_at_record |-> products[1].selling_price,
     date_recorded |-> date]

\* SpecInv: Clerk 1 has recorded a receipt in store 1 and Clerk 2 one in
\* store 2; every role then sends updates of the two records.
InitInv ==
    /\ SeededAccounts
    /\ products[1].selling_price = 1
    /\ \E q1 \in 1..MaxQty :
        inventory = (1 :> ReceivedRecord(1, 1, q1, 1))
                    @@ (2 :> ReceivedRecord(2, 2, MaxQty, 2))
    /\ transactions = << >>
    /\ supply_requests = << >>
    /\ seq = [merchants |-> 2, inventory |-> 3, transactions |-> 1, supply_requests |-> 1]
    /\ clock = 3
    /\ sessions = << >>
    /\ resp = NoReply

InvBodies ==
    {InvBody(Absent, st, sp, "absent", Absent, Absent) :
        st \in {Absent, -1, 1}, sp \in {Absent, Unparsable, 1}}
    \cup {InvBody(Absent, st, Absent, "true", Absent, Absent) :
        st \in {Absent, 1}}
    \cup {InvBody(1, Absent, 1, "absent", Absent, Absent),
          InvBody(Absent, 1, Absent, "absent", MaxPrice, Absent),
          InvBody(Absent, Absent, Absent, "absent", Absent, MaxPrice)}

MerchantInvBodies ==
    {InvBody(-1, Absent, Absent, "absent", Absent, Absent),
     InvBody(Absent, 1, Absent, "absent", Absent, Absent)}

NextInv ==
    \/ \E c \in {Tok("clerk", 1), Tok("clerk", 2), Tok("admin", 1),
                 Tok("admin", 3)},
          id \in 1..3, data \in InvBodies :
            InventoryPut(c, id, data)
    \/ \E id \in 1..2, data \in MerchantInvBodies :
            InventoryPut(Tok("merchant", 1), id, data)

SpecInv == InitInv /\ [][NextInv]_vars

\* SpecList: a seeded pending supply request, receipts and a sale by the
\* Clerks of the two stores, and every listing and report by each role.
InitList ==
    /\ InitSR
    /\ products[1].selling_price = 1
    /\ \A i \in DOMAIN supply_requests : supply_requests[i].status = "Pending"

Readers == {Tok("merchant", 1), Tok("admin", 1), Tok("admin", 3),
            Tok("clerk", 1)}

NextList ==
    \/ \E c \in {Tok("clerk", 1), Tok("clerk", 2)}, sp \in 0..1 :
            RecordReceipt(c, 1, clerks[c.id].store_id, MaxQty, sp, FALSE)
    \/ Sell(Tok("clerk", 1), 1, 1, 1)
    \/ \E c \in Readers : InventoryList(c)
    \/ \E c \in Readers : TransactionList(c)
    \/ \E c \in Readers : SupplyRequestList(c)
    \/ \E c \in Readers, t \in {"daily", "hourly"} : SalesReport(c, t)
    \/ \E c \in Readers, s \in {None, 1} : StockReport(c, None, s)
    \/ \E c \in Readers : SpoiltItemsReport(c)
    \/ \E c \in Readers, f \in {"absent", "paid", "overdue"} :
            PaymentStatusReport(c, f)

SpecList == InitList /\ [][NextList]_vars

\* SpecDel: the seeded accounts, two receipts, one sale out of the first
\* receipt and the seeded supply requests; every role then sends deletions.
InitDel ==
    /\ SeededAccounts
    /\ products[1].selling_price = 1
    /\ \E q \in 1..MaxQty :
        inventory =
            (1 :> [ReceivedRecord(1, 1, MaxQty, 1) EXCEPT
                        !.items_in_stock = MaxQty - q])
            @@ (2 :> ReceivedRecord(2, 2, MaxQty, 2))
        /\ transactions = (1 :> new_transaction(Tok("clerk", 1), 1, 1, q))
    /\ \E k \in [1..NSeedSR -> {1, 2}] :
         supply_requests =
            [i \in 1..NSeedSR |-> SeededSupplyRequest(k[i], "Pending", 1)]
    /\ seq = [merchants |-> 2, inventory |-> 3, transactions |-> 2,
              supply_requests |-> NSeedSR + 1]
    /\ clock = 3
    /\ sessions = << >>
    /\ resp = NoReply

Deleters == {Tok("merchant", 1), Tok("admin", 2), Tok("clerk", 1),
             Tok("clerk", 2)}

NextDel ==
    \/ \E c \in Deleters, id \in 1..2 : TransactionDelete(c, id)
    \/ \E c \in Deleters, id \in 1..3 : InventoryDelete(c, id)
    \/ \E c \in Deleters, id \in 1..(NSeedSR + 1) : SupplyRequestDelete(c, id)
    \/ \E c \in Deleters, id \in 1..3 : ClerkDelete(c, id)
    \/ \E c \in Deleters, id \in 1..2 : ProductDelete(c, id)

SpecDel == InitDel /\ [][NextDel]_vars

\* SpecCreate: every role sends the three create requests of the ledgers
\* to the seeded accounts.
InitCreate ==
    /\ Init
    /\ products[1].selling_price = 1

Creators == {Tok("merchant", 1), Tok("admin", 2), Tok("admin", 3),
             Tok("clerk", 1), Tok("clerk", 3)}

NextCreate ==
    \/ \E c \in Creators, s \in StoreIds, sp \in 0..1 :
            RecordReceipt(c, 1, s, MaxQty, sp, FALSE)
    \/ \E c \in Creators, s \in StoreIds : Sell(c, 1, s, 1)
    \/ \E c \in Creators, q \in 0..1 : SupplyRequestCreate(c, 1, q, "new")

SpecCreate == InitCreate /\ [][NextCreate]_vars

\* SpecMerchant: a fresh deployment with empty tables; registrations run
\* beside each other, the Merchant logs in and deletes its profile.
InitMerchant ==
    /\ merchants = << >>
    /\ admins = << >>
    /\ clerks = << >>
    /\ stores = << >>
    /\ products = << >>
    /\ inventory = << >>
    /\ transactions = << >>
    /\ supply_requests = << >>
    /\ seq = [merchants |-> 1, inventory |-> 1, transactions |-> 1,
              supply_requests |-> 1]
    /\ clock = 1
    /\ tokens = {}
    /\ blacklist = {}
    /\ sessions = [r \in 1..(NReq + 1) |-> RegIdle]
    /\ resp = NoReply

MerchantNames == {"", "m1", "m2"}

NextMerchant ==
    \/ \E r \in 1..(NReq + 1), name \in MerchantNames :
            MerchantRegisterBegin(r, name, "pw")
    \/ \E r \in 1..(NReq + 1) : MerchantRegisterCommit(r)
    \/ \E email \in MerchantNames, password \in {"pw", "bad"} :
            Login(email, password)
    \/ \E c \in tokens : MerchantDelete(c)

SpecMerchant == InitMerchant /\ [][NextMerchant]_vars

\* SpecQty: receipts with any split between received and spoilt units,
\* sales, and updates of the stock fields by the Clerk and the Merchant.
InitQty ==
    /\ Init
    /\ products[1].selling_price = 1

QtyBodies ==
    {InvBody(Absent, st, sp, "absent", Absent, Absent) :
        st \in {Absent, -1, 0}, sp \in {Absent, -1, MaxQty}}

NextQty ==
    \/ \E qr \in -1..1, sp \in -1..MaxQty :
            RecordReceipt(Tok("clerk", 1), 1, 1, qr, sp, FALSE)
    \/ \E q \in 1..MaxQty : Sell(Tok("clerk", 1), 1, 1, q)
    \/ \E c \in {Tok("clerk", 1), Tok("merchant", 1)},
          id \in 1..MaxInv, data \in QtyBodies :
            InventoryPut(c, id, data)

SpecQty == InitQty /\ [][NextQty]_vars

\* SpecPrice: the Clerk of store 1 records receipts and sales while the
\* Merchant, an Admin and a Clerk send price updates for the product.
InitPrice ==
    /\ Init
    /\ products[1].selling_price = 1

PriceBodies ==
    {ProductBody(bp, sp) : bp \in {Absent, Unparsable, MaxPrice},
                           sp \in {Absent, -1, MaxPrice}}
    \ {ProductBody(Unparsable, -1)}

PriceWriters == {Tok("merchant", 1), Tok("admin", 1), Tok("clerk", 1)}

NextPrice ==
    \/ RecordReceipt(Tok("clerk", 1), 1, 1, MaxQty, 1, FALSE)
    \/ Sell(Tok("clerk", 1), 1, 1, 1)
    \/ \E c \in PriceWriters, data \in PriceBodies : ProductPut(c, 1, data)
    \/ ProductPut(Tok("merchant", 1), 2, ProductBody(Absent, MaxPrice))

SpecPrice == InitPrice /\ [][NextPrice]_vars

\* SpecStore: every Clerk records receipts and sales for every store id,
\* the existing ones and one that does not exist.
InitStore ==
    /\ Init
    /\ products[1].selling_price = 1

StoreClerks == {Tok("clerk", i) : i \in 1..3}

NextStore ==
    \/ \E c \in StoreClerks, s \in StoreIds \cup {3} :
            RecordReceipt(c, 1, s, MaxQty, 0, FALSE)
    \/ \E c \in StoreClerks, s \in StoreIds \cup {3} : Sell(c, 1, s, 1)

SpecStore == InitStore /\ [][NextStore]_vars

\* SpecTx: store 1 holds a receipt; Clerks sell from it while the Merchant
\* changes the product's selling price and deletes Clerks, transactions,
\* inventory records and the product.
InitTx ==
    /\ SeededAccounts
    /\ products[1].selling_price = 1
    /\ inventory = (1 :> ReceivedRecord(1, 1, MaxQty, 1))
    /\ transactions = << >>
    /\ supply_requests = << >>
    /\ seq = [merchants |-> 2, inventory |-> 2, transactions |-> 1,
              supply_requests |-> 1]
    /\ clock = 2
    /\ sessions = << >>
    /\ resp = NoReply

NextTx ==
    \/ \E c \in {Tok("clerk", 1), Tok("clerk", 3)}, q \in Quantities :
            Sell(c, 1, 1, q)
    \/ \E sp \in Prices : ProductPut(Tok("merchant", 1), 1, ProductBody(Absent, sp))
    \/ \E id \in {1, 3} : ClerkDelete(Tok("merchant", 1), id)
    \/ \E id \in 1..MaxTx : TransactionDelete(Tok("merchant", 1), id)
    \/ InventoryDelete(Tok("merchant", 1), 1)
    \/ ProductDelete(Tok("merchant", 1), 1)

SpecTx == InitTx /\ [][NextTx]_vars

\* SpecErr: store 1 holds a receipt of Clerk 1; the Merchant, Admin 1 and
\* Clerk 1 send updates of the store, of profiles, of the record and of
\* the product, with bodies whose first field is acceptable and whose
\* later field is not, and the Merchant sends the deletions that fail.
InitErr ==
    /\ SeededAccounts
    /\ products[1].selling_price = 1
    /\ inventory = (1 :> ReceivedRecord(1, 1, MaxQty, 1))
    /\ transactions = << >>
    /\ supply_requests = << >>
    /\ seq = [merchants |-> 2, inventory |-> 2, transactions |-> 1,
              supply_requests |-> 1]
    /\ clock = 2
    /\ sessions = << >>
    /\ resp = NoReply

ErrStoreBodies ==
    {StoreBody("s2", "absent"), StoreBody("t", "false"),
     StoreBody("absent", "true")}

ErrProfileBodies ==
    {ProfileBody("x", "not-an-email", "absent", "absent", Absent),
     ProfileBody("x", "absent", "weak", "absent", Absent),
     ProfileBody("x", "absent", "absent", "false", Absent),
     ProfileBody("x", "absent", "absent", "absent", 2),
     ProfileBody("x", "absent", "absent", "absent", 3),
     ProfileBody("absent", "a2", "absent", "absent", Absent),
     ProfileBody("absent", "c2", "Str0ng!pw", "absent", Absent)}

ErrInvBodies ==
    {InvBody(Absent, 1, -1, "absent", Absent, Absent),
     InvBody(Absent, 1, Unparsable, "absent", Absent, Absent),
     InvBody(1, Absent, Absent, "absent", MaxPrice, -1),
     InvBody(Absent, 0, 1, "absent", Absent, Absent)}

NextErr ==
    \/ \E c \in PriceWriters, id \in {1, 3}, data \in ErrStoreBodies :
            StorePut(c, id, data)
    \/ \E c \in {Tok("merchant", 1), Tok("admin", 2)}, id \in {None, 2},
          data \in ErrProfileBodies :
            AdminPut(c, id, data)
    \/ \E c \in {Tok("admin", 1), Tok("clerk", 1)}, id \in {None, 1},
          data \in ErrProfileBodies :
            ClerkPut(c, id, data)
    \/ \E c \in {Tok("merchant", 1), Tok("clerk", 1)}, data \in ErrInvBodies :
            InventoryPut(c, 1, data)
    \/ \E bp \in {Unparsable, MaxPrice} :
            ProductPut(Tok("merchant", 1), 1, ProductBody(bp, -1))
    \/ ProductDelete(Tok("merchant", 1), 1)
    \/ MerchantDelete(Tok("merchant", 1))

SpecErr == InitErr /\ [][NextErr]_vars

\* SpecCascade: each store holds a receipt, store 1 a sale and an answered
\* supply request; the Merchant and a Clerk send deletions of products,
\* stores, accounts and inventory records.
InitCascade ==
    /\ SeededAccounts
    /\ products[1].selling_price = 1
    /\ inventory =
            (1 :> [ReceivedRecord(1, 1, MaxQty, 1) EXCEPT
                        !.items_in_stock = MaxQty - 1])
            @@ (2 :> ReceivedRecord(2, 2, MaxQty, 2))
    /\ transactions = (1 :> new_transaction(Tok("clerk", 1), 1, 1, 1))
    /\ \E a \in {1, 3} :
         supply_requests = (1 :> SeededSupplyRequest(1, "Approved", a))
    /\ seq = [merchants |-> 2, inventory |-> 3, transactions |-> 2,
              supply_requests |-> 2]
    /\ clock = 3
    /\ sessions = << >>
    /\ resp = NoReply

CascadeCallers == {Tok("merchant", 1), Tok("clerk", 1)}

NextCascade ==
    \/ \E c \in CascadeCallers, id \in 1..2 : ProductDelete(c, id)
    \/ \E c \in CascadeCallers, id \in 1..3 : StoreDelete(c, id)
    \/ \E c \in CascadeCallers, id \in 1..3 : ClerkDelete(c, id)
    \/ \E c \in CascadeCallers, id \in 1..3 : AdminDelete(c, id)
    \/ \E c \in CascadeCallers, id \in 1..2 : InventoryDelete(c, id)

SpecCascade == InitCascade /\ [][NextCascade]_vars

\* SpecLogin: a Merchant, an Admin and two Clerks; the Merchant holds a
\* token and changes the email, the password and is_active of the Admin
\* and of Clerk 1, so that emails collide across the account tables, while
\* logins arrive for every email and password.
InitLogin ==
    /\ merchants = (1 :> MerchantRow("m", "pw"))
    /\ admins = (1 :> AdminRow("a1", "pw", 1, None))
    /\ clerks = (1 :> ClerkRow("c1", "pw", 1, None)) @@
                (2 :> ClerkRow("c2", "pw", 1, None))
    /\ stores = << >>
    /\ products = << >>
    /\ EmptyLedgers
    /\ tokens = {Tok("merchant", 1)}
    /\ blacklist = {}
    /\ sessions = << >>
    /\ resp = NoReply

LoginEmails == {"", "not-an-email", "m", "a1", "c1", "zz"}

LoginPasswords == {"", "pw", "pw2"}

LoginProfileBodies ==
    {ProfileBody("absent", e, p, act, Absent) :
        e \in {"absent", "m", "a1"}, p \in {"absent", "pw2"},
        act \in {"absent", "false"}}

NextLogin ==
    \/ \E email \in LoginEmails, password \in LoginPasswords :
            Login(email, password)
    \/ \E data \in LoginProfileBodies : AdminPut(Tok("merchant", 1), 1, data)
    \/ \E data \in LoginProfileBodies : ClerkPut(Tok("merchant", 1), 1, data)

SpecLogin == InitLogin /\ [][NextLogin]_vars

\* SpecAuth: the Merchant and a Clerk log in, log out and refresh their
\* tokens; with any token they hold they record a receipt, list the
\* inventory and set the Clerk's is_active.
InitAuth ==
    /\ merchants = (1 :> MerchantRow("m", "pw"))
    /\ admins = (1 :> AdminRow("a1", "pw", 1, 1))
    /\ clerks = (1 :> ClerkRow("c1", "pw", 1, 1))
    /\ stores = (1 :> StoreRow("s1", 1))
    /\ products = [p \in ProductIds |->
                     [buying_price |-> 1, selling_price |-> 1,
                      merchant_id |-> 1]]
    /\ EmptyLedgers
    /\ tokens = {}
    /\ blacklist = {}
    /\ sessions = << >>
    /\ resp = NoReply

AuthProfileBodies ==
    {ProfileBody("absent", "absent", "absent", act, Absent) :
        act \in {"false", "true"}}

\* a resource request of SpecAuth presenting the token c
AuthRequest(c) ==
    \/ RecordReceipt(c, 1, 1, 1, 0, FALSE)
    \/ InventoryList(c)
    \/ \E data \in AuthProfileBodies : ClerkPut(c, 1, data)

NextAuth ==
    \/ \E email \in {"m", "c1"}, password \in {"pw", "bad"} :
            Login(email, password)
    \/ \E c \in tokens : Logout(c)
    \/ \E c \in tokens : Refresh(c)
    \/ \E c \in tokens, refresh \in BOOLEAN : JwtRejected(c, refresh)
    \/ \E c \in tokens : AuthRequest(c)

SpecAuth == InitAuth /\ [][NextAuth]_vars

\* SpecClerk: two Clerks log in and update their own profiles, by
\* PUT /clerks and by PUT /clerks/<own id>.  Clerk 1 has the primary key of
\* the Admin and of the Merchant, Clerk 2 shares its key with no one.
InitClerk ==
    /\ merchants = (1 :> MerchantRow("m", "pw"))
    /\ admins = (1 :> AdminRow("a1", "pw", 1, 1))
    /\ clerks = (1 :> ClerkRow("c1", "pw", 1, 1)) @@
                (2 :> ClerkRow("c2", "pw", 1, 1))
    /\ stores = (1 :> StoreRow("s1", 1))
    /\ products = << >>
    /\ EmptyLedgers
    /\ tokens = {}
    /\ blacklist = {}
    /\ sessions = << >>
    /\ resp = NoReply

ClerkBodies ==
    {ProfileBody(u, e, "absent", act, Absent) :
        u \in {"absent", "x"}, e \in {"absent", "not-an-email", "c9"},
        act \in {"absent", "true", "false"}}

NextClerk ==
    \/ \E email \in {"c1", "c2"} : Login(email, "pw")
    \/ \E c \in tokens, data \in ClerkBodies : ClerkPut(c, None, data)
    \/ \E c \in tokens, data \in ClerkBodies : ClerkPut(c, c.id, data)

SpecClerk == InitClerk /\ [][NextClerk]_vars

\* SpecRead: the ledgers of SpecList, read through the listings and by id
\* by the Merchant, by the Admins of the two stores, by the Admin without
\* a store and by the Clerks.
RecordReaders == Readers \cup {Tok("admin", 2), Tok("clerk", 2)}

NextRead ==
    \/ \E c \in {Tok("clerk", 1), Tok("clerk", 2)} :
            RecordReceipt(c, 1, clerks[c.id].store_id, MaxQty, 0, FALSE)
    \/ Sell(Tok("clerk", 1), 1, 1, 1)
    \/ \E c \in RecordReaders : InventoryList(c)
    \/ \E c \in RecordReaders : TransactionList(c)
    \/ \E c \in RecordReaders : SupplyRequestList(c)
    \/ \E c \in RecordReaders, id \in 1..MaxInv : InventoryGet(c, id)
    \/ \E c \in RecordReaders, id \in 1..MaxTx : TransactionGet(c, id)
    \/ \E c \in RecordReaders, id \in 1..NSeedSR : SupplyRequestGet(c, id)

SpecRead == InitList /\ [][NextRead]_vars

\* SpecAdmin: the seeded accounts; the Merchant and two Admins send admin
\* updates that name a store, the Merchant deletes stores and its own
\* account, and a registration of a Merchant arrives.
InitAdmin ==
    /\ SeededAccounts
    /\ products[1].selling_price = 1
    /\ EmptyLedgers
    /\ sessions = [r \in 1..1 |-> RegIdle]
    /\ resp = NoReply

AdminCallers == {Tok("merchant", 1), Tok("admin", 1), Tok("admin", 2)}

AdminBodies ==
    {ProfileBody("absent", "absent", "absent", "absent", s) :
        s \in {Absent, 0, 1, 2, 3}}
    \cup {ProfileBody("absent", "absent", "absent", "false", Absent)}

NextAdmin ==
    \/ \E c \in AdminCallers, id \in {None, 1, 2, 3}, data \in AdminBodies :
            AdminPut(c, id, data)
    \/ \E c \in AdminCallers, id \in 1..3 : StoreDelete(c, id)
    \/ \E c \in AdminCallers : MerchantDelete(c)
    \/ \E name \in {"m", "m2"} : MerchantRegisterBegin(1, name, "pw")

SpecAdmin == InitAdmin /\ [][NextAdmin]_vars

\* SpecRestock: the seeded supply requests in every status; the Clerks of
\* the two stores, the Clerk without a store, an Admin and the Merchant
\* send creations, and Admins send answers.
RestockCallers == {Tok("merchant", 1), Tok("admin", 2)} \cup StoreClerks

RestockProducts == ProductIds \cup {3}

RestockQuantities == {-1, 0, 1}

InitRestock ==
    /\ InitSR
    /\ \A i \in DOMAIN supply_requests :
            /\ supply_requests[i].requested_by_clerk_id = 1
            /\ supply_requests[i].approved_by_admin_id \in {None, 1}

RestockBodies == {SRBody("absent", "new"), SRBody("Approved", "absent")}

NextRestock ==
    \/ \E c \in RestockCallers, p \in RestockProducts, q \in RestockQuantities :
            SupplyRequestCreate(c, p, q, "new")
    \/ \E c \in {Tok("admin", 1), Tok("admin", 3)},
          id \in 1..(NSeedSR + MaxSR), data \in RestockBodies :
            SupplyRequestPut(c, id, data)

SpecRestock == InitRestock /\ [][NextRestock]_vars

\* SpecOnboard: a fresh deployment with empty tables.  A Merchant
\* registers and logs in, creates a store, registers an Admin and gives it
\* the store; the Admin logs in and registers a Clerk; the Clerk logs in;
\* every token holder then sends clerk updates that name the store.
InitOnboard == InitMerchant

OnboardBodies ==
    {ProfileBody(u, "absent", "absent", "absent", s) :
        u \in {"absent", "x"}, s \in {Absent, 1}}

NextOnboard ==
    \/ MerchantRegisterBegin(1, "m", "pw")
    \/ MerchantRegisterCommit(1)
    \/ \E email \in {"m", "a1", "c1"} : Login(email, "pw")
    \/ \E c \in tokens : StoreCreate(c, "s1")
    \/ \E c \in tokens : AdminRegister(c, "a1", "pw")
    \/ \E c \in tokens : ClerkRegister(c, "c1", "pw")
    \/ \E c \in tokens, id \in {None, 1}, data \in OnboardBodies :
            AdminPut(c, id, data)
    \/ \E c \in tokens, id \in {None, 1}, data \in OnboardBodies :
            ClerkPut(c, id, data)

SpecOnboard == InitOnboard /\ [][NextOnboard]_vars

\* SpecOnboardFair: the clients carry each operation of the scenario out
\* for as long as it can still change the system.
SpecOnboardFair ==
    /\ SpecOnboard
    /\ WF_vars(MerchantRegisterBegin(1, "m", "pw"))
    /\ WF_vars(MerchantRegisterCommit(1))
    /\ WF_vars(\E email \in {"m", "a1", "c1"} : Login(email, "pw"))
    /\ WF_vars(\E c \in tokens : StoreCreate(c, "s1"))
    /\ WF_vars(\E c \in tokens : AdminRegister(c, "a1", "pw"))
    /\ WF_vars(\E c \in tokens : ClerkRegister(c, "c1", "pw"))
    /\ WF_vars(\E c \in tokens, id \in {None, 1}, data \in OnboardBodies :
                    AdminPut(c, id, data))
    /\ WF_vars(\E c \in tokens, id \in {None, 1}, data \in OnboardBodies :
                    ClerkPut(c, id, data))

\* SpecStock: receipts, sales and deletions of transactions, one request
\* after the other; no record is edited through PUT /inventory/<id>.
NextStock ==
    \/ \E s \in StoreIds, sp \in 0..1 :
            RecordReceipt(Tok("clerk", 3), 1, s, MaxQty, sp, FALSE)
    \/ \E c \in {Tok("clerk", 1), Tok("clerk", 3)}, s \in StoreIds,
          q \in 1..MaxQty :
            Sell(c, 1, s, q)
    \/ \E c \in {Tok("merchant", 1), Tok("clerk", 3)}, id \in 1..MaxTx :
            TransactionDelete(c, id)

SpecStock == InitQty /\ [][NextStock]_vars

----------------------------------------------------------------------------
(* Properties of the sale operation (specification Spec) *)

ClerkTokens == {c \in tokens : c.user_type = "clerk"}

\* the most recently created record of a pair: rows are created with
\* increasing primary keys
most_recent_record(product_id, store_id) ==
    LET rows == {i \in DOMAIN inventory :
                    /\ inventory[i].product_id = product_id
                    /\ inventory[i].store_id = store_id}
    IN  IF rows = {} THEN None
        ELSE CHOOSE i \in rows : \A j \in rows : j <= i

\* the sale request passes the checks that precede the stock check: the
\* caller is an existing Clerk, product and store exist, and the Clerk is
\* unassigned or assigned to the store
reaches_stock_check(c, product_id, store_id, quantity_sold) ==
    /\ c.id \in DOMAIN clerks
    /\ quantity_sold > 0
    /\ product_id \in DOMAIN products
    /\ store_id \in DOMAIN stores
    /\ clerks[c.id].store_id \in {None, store_id}

\* C1: a sale of q > 0 units, when the most recently created inventory
\* record of (product, store) holds at least q units, succeeds; that
\* record's items_in_stock drops by exactly q, exactly one transaction row
\* is added with quantity_sold = q and total_revenue = selling price * q,
\* every other inventory record and every older transaction is unchanged,
\* and the two writes appear in the same step.
C1_SellDebitsLatestRecord ==
    [][\A c \in ClerkTokens, p \in ProductIds, s \in StoreIds,
          q \in 1..MaxQty :
        LET rec == most_recent_record(p, s) IN
        ( /\ resp'.op = "transaction_post"
          /\ reaches_stock_check(c, p, s, q)
          /\ rec # None
          /\ inventory[rec].items_in_stock >= q
          /\ Sell(c, p, s, q) )
        => /\ resp'.status = 201
           /\ inventory' = [inventory EXCEPT ![rec].items_in_stock = @ - q]
           /\ \E t \in DOMAIN transactions' :
                /\ DOMAIN transactions' = DOMAIN transactions \cup {t}
                /\ t \notin DOMAIN transactions
                /\ transactions'[t].quantity_sold = q
                /\ transactions'[t].product_id = p
                /\ transactions'[t].store_id = s
                /\ transactions'[t].total_revenue
                      = products[p].selling_price * q
           /\ \A t \in DOMAIN transactions :
                transactions'[t] = transactions[t]
    ]_vars

\* C1 witness: a sale has succeeded on the newer of two records of one
\* pair, and the older record still holds its full stock
C1_Witness ==
    /\ resp.op = "transaction_post" /\ resp.status = 201
    /\ \E i, j \in DOMAIN inventory :
        /\ i < j
        /\ inventory[i].store_id = inventory[j].store_id
        /\ inventory[i].items_in_stock = MaxQty
        /\ inventory[j].items_in_stock
              < inventory[j].quantity_received - inventory[j].items_spoilt
    /\ \E t \in DOMAIN transactions :
        transactions[t].total_revenue
            = products[1].selling_price * transactions[t].quantity_sold

\* C2: a sale of q > 0 units, when (product, store) has no inventory record
\* or its most recently created record holds fewer than q units, fails with
\* InsufficientStock, adds no transaction and changes no inventory record.
C2_InsufficientStockRejected ==
    [][\A c \in ClerkTokens, p \in ProductIds, s \in StoreIds,
          q \in 1..MaxQty :
        LET rec == most_recent_record(p, s) IN
        ( /\ resp'.op = "transaction_post"
          /\ reaches_stock_check(c, p, s, q)
          /\ (rec = None \/ inventory[rec].items_in_stock < q)
          /\ Sell(c, p, s, q) )
        => /\ resp'.status = 400
           /\ resp'.reason = "InsufficientStock"
           /\ transactions' = transactions
           /\ inventory' = inventory
    ]_vars

\* C2 witness: a sale was refused for lack of stock although an older
\* record of the same pair holds enough units
C2_Witness ==
    /\ resp.op = "transaction_post" /\ resp.reason = "InsufficientStock"
    /\ DOMAIN inventory = {1, 2}
    /\ inventory[1].store_id = inventory[2].store_id
    /\ inventory[1].items_in_stock = MaxQty
    /\ inventory[2].items_in_stock <= 0
    /\ transactions = << >>

----------------------------------------------------------------------------
(* Properties of concurrent sales (specification SpecConc) *)

RECURSIVE SumSold(_)
SumSold(ids) ==
    IF ids = {} THEN 0
    ELSE LET t == CHOOSE t \in ids : TRUE
         IN  transactions[t].quantity_sold + SumSold(ids \ {t})

\* C3: whatever the interleaving of the sale requests against one
\* inventory record, its items_in_stock is never negative.
C3_StockNeverNegative ==
    \A i \in DOMAIN inventory : inventory[i].items_in_stock >= 0

\* C3 witness: two sales that read the same stock have both committed and
\* together sold more than the record held
C3_Witness ==
    /\ sessions # << >>
    /\ \A r \in {1, 2} : sessions[r].pc = "done" /\ sessions[r].status = 201
    /\ sessions[1].items_in_stock = sessions[2].items_in_stock
    /\ sessions[1].quantity_sold + sessions[2].quantity_sold
          > inventory[1].quantity_received
    /\ inventory[1].items_in_stock >= 0

\* C4: with initial stock S, the quantities of the successful sales sum to
\* at most S, and items_in_stock equals S minus that sum.
C4_NoOversellNoLostDecrement ==
    LET S == inventory[1].quantity_received - inventory[1].items_spoilt
        sold == SumSold(DOMAIN transactions)
    IN  (sessions # << >> /\ \A r \in DOMAIN sessions : sessions[r].pc # "checked")
        => /\ sold <= S
           /\ inventory[1].items_in_stock = S - sold

----------------------------------------------------------------------------
(* Properties of the supply request workflow (specification SpecSR) *)

\* the caller is an Admin whose store is the store of the request
in_scope_admin(c, request_id) ==
    /\ c.user_type = "admin"
    /\ c.id \in DOMAIN admins
    /\ admins[c.id].store_id = supply_requests[request_id].store_id

\* C5: once a supply request is Approved, Declined or Fulfilled, every
\* later transition attempt fails with InvalidTransition and leaves the
\* request unchanged; the status only ever changes from Pending.
C5_AnsweredRequestFrozen ==
    [][/\ \A c \in tokens, id \in DOMAIN supply_requests, data \in SRBodies :
            ( /\ resp'.op = "supply_request_put"
              /\ supply_requests[id].status # "Pending"
              /\ in_scope_admin(c, id)
              /\ data.status \in valid_statuses
              /\ SupplyRequestPut(c, id, data) )
            => /\ resp'.status = 400
               /\ resp'.reason = "InvalidTransition"
               /\ supply_requests' = supply_requests
       /\ \A id \in DOMAIN supply_requests \cap DOMAIN supply_requests' :
            supply_requests'[id].status # supply_requests[id].status
                => supply_requests[id].status = "Pending"
    ]_vars

\* C6: only an Admin whose store_id equals the request's store_id changes a
\* supply request; a transition attempt by an Admin of another store, an
\* Admin without a store, a Merchant or a Clerk is rejected Forbidden and
\* leaves the request unchanged.
C6_OnlyScopedAdminTransitions ==
    [][\A c \in tokens, id \in DOMAIN supply_requests, data \in SRBodies :
            ( /\ resp'.op = "supply_request_put"
              /\ ~in_scope_admin(c, id)
              /\ SupplyRequestPut(c, id, data) )
            => /\ resp'.status = 403
               /\ supply_requests' = supply_requests
    ]_vars

\* C7: when the Admin of a Pending request's store submits Approved,
\* Declined or Fulfilled, the request succeeds and the stored request has
\* that status, the Admin as approved_by_admin_id and a response_date.
C7_ScopedAdminAnswersPending ==
    [][\A c \in tokens, id \in DOMAIN supply_requests, data \in SRBodies :
            ( /\ resp'.op = "supply_request_put"
              /\ supply_requests[id].status = "Pending"
              /\ in_scope_admin(c, id)
              /\ data.status \in valid_statuses
              /\ SupplyRequestPut(c, id, data) )
            => /\ resp'.status = 200
               /\ supply_requests'[id].status = data.status
               /\ supply_requests'[id].approved_by_admin_id = c.id
               /\ supply_requests'[id].response_date # None
    ]_vars

----------------------------------------------------------------------------
(* Properties of inventory updates (specification SpecInv) *)

\* C8: an inventory update by a Clerk changes at most items_in_stock and
\* items_spoilt, and only of a record whose clerk_id is the caller; an
\* update that names payment_status, quantity_received or a price field is
\* answered Forbidden and changes no field of any record, also when it
\* names items_in_stock or items_spoilt as well.
C8_ClerkUpdatesStockFieldsOnly ==
    [][\A c \in ClerkTokens, id \in DOMAIN inventory, data \in InvBodies :
        ( /\ resp'.op = "inventory_put"
          /\ InventoryPut(c, id, data) )
        => /\ \A j \in DOMAIN inventory \ {id} : inventory'[j] = inventory[j]
           /\ inventory'[id] =
                [inventory[id] EXCEPT
                    !.items_in_stock = inventory'[id].items_in_stock,
                    !.items_spoilt = inventory'[id].items_spoilt]
           /\ inventory'[id] # inventory[id]
                => inventory[id].clerk_id = c.id
           /\ ( \/ data.payment_status # "absent"
                \/ data.quantity_received # Absent
                \/ data.buying_price_at_record # Absent
                \/ data.selling_price_at_record # Absent )
                => /\ resp'.status = 403
                   /\ inventory' = inventory
    ]_vars

\* C8 witness: a Clerk's update that named a field reserved to other roles
\* was refused while the Clerk's own record kept the stock it had received
C8_Witness ==
    /\ resp.op = "inventory_put"
    /\ resp.status = 403
    /\ resp.reason = "ClerkFieldsOnly"
    /\ \E i \in DOMAIN inventory :
        /\ inventory[i].clerk_id = 1
        /\ inventory[i].items_in_stock = 1
        /\ inventory[i].items_spoilt = 1
        /\ inventory[i].payment_status = FALSE

----------------------------------------------------------------------------
(* Properties of listings and reports (specification SpecList) *)

UnassignedAdminTokens ==
    {c \in tokens : /\ c.user_type = "admin"
                    /\ c.id \in DOMAIN admins
                    /\ admins[c.id].store_id = None}

\* C9: every store-scoped listing (inventory list, transaction list,
\* supply-request list, each of the four reports) asked for by an Admin
\* whose store_id is null is answered Forbidden with the 'admin not
\* assigned to a store' reason and returns no records.
C9_UnassignedAdminDenied ==
    [][\A c \in UnassignedAdminTokens :
        ( \/ InventoryList(c)
          \/ TransactionList(c)
          \/ SupplyRequestList(c)
          \/ \E t \in {"daily", "hourly"} : SalesReport(c, t)
          \/ \E s \in {None, 1} : StockReport(c, None, s)
          \/ SpoiltItemsReport(c)
          \/ \E f \in {"absent", "paid", "overdue"} :
                PaymentStatusReport(c, f) )
        => /\ resp'.status = 403
           /\ resp'.reason = "AdminUnassigned"
           /\ resp'.records = {}
    ]_vars

\* C9 witness: a report was refused for want of a store while each of the
\* three ledgers held a row
C9_Witness ==
    /\ resp.op = "sales_report"
    /\ resp.status = 403
    /\ resp.reason = "AdminUnassigned"
    /\ resp.records = {}
    /\ DOMAIN inventory # {}
    /\ DOMAIN transactions # {}
    /\ DOMAIN supply_requests # {}

----------------------------------------------------------------------------
(* Properties of deletions (specification SpecDel) *)

StaffTokens == {c \in tokens : c.user_type \in {"admin", "clerk"}}

\* C10: a Clerk, Product, InventoryRecord, Transaction or SupplyRequest is
\* deleted only by a request authenticated as the Merchant; a delete
\* request authenticated as an Admin or a Clerk, whatever its numeric id,
\* is rejected and deletes nothing.
C10_OnlyMerchantDeletes ==
    [][\A c \in StaffTokens, id \in 1..3 :
        ( \/ TransactionDelete(c, id)
          \/ InventoryDelete(c, id)
          \/ SupplyRequestDelete(c, id)
          \/ ClerkDelete(c, id)
          \/ ProductDelete(c, id) )
        => /\ resp'.status = 403
           /\ UNCHANGED <<clerks, products, inventory, transactions,
                          supply_requests>>
    ]_vars

----------------------------------------------------------------------------
(* Properties of record creation (specification SpecCreate) *)

NonClerkTokens == {c \in tokens : c.user_type \in {"merchant", "admin"}}

\* C11: an InventoryRecord, a Transaction or a SupplyRequest is created only
\* by a request authenticated as a Clerk; a create request authenticated as
\* the Merchant or an Admin, whatever its numeric id, is rejected and
\* creates nothing.
C11_OnlyClerkCreates ==
    [][\A c \in NonClerkTokens, s \in StoreIds, n \in 0..1 :
        ( \/ RecordReceipt(c, 1, s, MaxQty, n, FALSE)
          \/ Sell(c, 1, s, 1)
          \/ SupplyRequestCreate(c, 1, n, "new") )
        => /\ resp'.status = 403
           /\ UNCHANGED <<inventory, transactions, supply_requests>>
    ]_vars

----------------------------------------------------------------------------
(* Properties of Merchant registration (specification SpecMerchant) *)

\* C12: under any sequence and any interleaving of Merchant registration
\* requests at most one Merchant account exists.
C12_AtMostOneMerchant ==
    Cardinality(DOMAIN merchants) <= 1

\* C13: once a Merchant registration has succeeded (the merchants key
\* sequence has advanced), a registration issued later is rejected, also
\* after the Merchant has deleted its own profile.
C13_MerchantNeverReCreated ==
    [][\A r \in DOMAIN sessions, name \in MerchantNames \ {""} :
        ( /\ seq.merchants > 1
          /\ MerchantRegisterBegin(r, name, "pw") )
        => sessions'[r].status = 403
    ]_vars

----------------------------------------------------------------------------
(* Properties of stored quantities (specification SpecQty) *)

\* C14: every inventory record has quantity_received >= 0,
\* items_in_stock >= 0 and items_spoilt >= 0, after any sequence of
\* receipts, sales and inventory updates.
C14_QuantitiesNonNegative ==
    \A i \in DOMAIN inventory :
        /\ inventory[i].quantity_received >= 0
        /\ inventory[i].items_in_stock >= 0
        /\ inventory[i].items_spoilt >= 0

----------------------------------------------------------------------------
(* Properties of stored prices (specification SpecPrice) *)

\* the price columns of the inventory records and transactions that exist
\* before and after a step
stored_prices_kept ==
    /\ \A i \in DOMAIN inventory :
         /\ i \in DOMAIN inventory'
         /\ inventory'[i].buying_price_at_record
                = inventory[i].buying_price_at_record
         /\ inventory'[i].selling_price_at_record
                = inventory[i].selling_price_at_record
    /\ \A t \in DOMAIN transactions :
         /\ t \in DOMAIN transactions'
         /\ transactions'[t].selling_price_at_transaction
                = transactions[t].selling_price_at_transaction
         /\ transactions'[t].total_revenue = transactions[t].total_revenue

\* C15: a successful recordReceipt creates exactly one inventory record,
\* whose items_in_stock is quantity_received - items_spoilt, whose clerk_id
\* is the caller and whose buying and selling prices are the product's
\* prices at that moment, and leaves the other records as they were; an
\* update of the product's prices leaves the prices stored in the existing
\* inventory records and transactions unchanged.
C15_ReceiptSnapshotsPrices ==
    [][ /\ \A c \in ClerkTokens, s \in StoreIds, sp \in 0..1 :
            ( /\ resp'.op = "inventory_post"
              /\ resp'.status = 201
              /\ RecordReceipt(c, 1, s, MaxQty, sp, FALSE) )
            => \E n \in DOMAIN inventory' \ DOMAIN inventory :
                 /\ DOMAIN inventory' = DOMAIN inventory \cup {n}
                 /\ \A i \in DOMAIN inventory : inventory'[i] = inventory[i]
                 /\ inventory'[n].quantity_received = MaxQty
                 /\ inventory'[n].items_spoilt = sp
                 /\ inventory'[n].items_in_stock = MaxQty - sp
                 /\ inventory'[n].clerk_id = c.id
                 /\ inventory'[n].product_id = 1
                 /\ inventory'[n].store_id = s
                 /\ inventory'[n].buying_price_at_record
                        = products[1].buying_price
                 /\ inventory'[n].selling_price_at_record
                        = products[1].selling_price
        /\ \A c \in tokens, data \in PriceBodies :
            ( resp'.op = "product_put" /\ ProductPut(c, 1, data) )
            => stored_prices_kept
      ]_vars

\* a price update was accepted while an inventory record and a transaction
\* hold the earlier selling price
C15_Witness ==
    /\ resp.op = "product_put"
    /\ resp.status = 200
    /\ \E i \in DOMAIN inventory :
         /\ inventory[i].selling_price_at_record # products[1].selling_price
         /\ inventory[i].items_in_stock = inventory[i].quantity_received - inventory[i].items_spoilt
    /\ \E t \in DOMAIN transactions :
         transactions[t].selling_price_at_transaction
            # products[1].selling_price

----------------------------------------------------------------------------
(* Properties of the Clerk's store (specification SpecStore) *)

\* C16: a receipt or a sale requested by a Clerk whose store_id is set and
\* differs from the store of the request is answered Forbidden and creates
\* and changes nothing; a Clerk whose store_id is NULL records receipts
\* for any existing store, and its sales for any existing store are never
\* answered Forbidden and are recorded when the store's latest record
\* holds the stock.
C16_ClerkBoundToItsStore ==
    [][\A c \in ClerkTokens, s \in StoreIds :
        /\ ( /\ clerks[c.id].store_id \notin {None, s}
             /\ \/ RecordReceipt(c, 1, s, MaxQty, 0, FALSE)
                \/ Sell(c, 1, s, 1) )
           => /\ resp'.status = 403
              /\ resp'.reason = "Forbidden"
              /\ UNCHANGED <<accounts, catalog, ledgers>>
        /\ ( /\ clerks[c.id].store_id = None
             /\ RecordReceipt(c, 1, s, MaxQty, 0, FALSE) )
           => /\ resp'.status = 201
              /\ \E n \in DOMAIN inventory' \ DOMAIN inventory :
                   /\ inventory'[n].store_id = s
                   /\ inventory'[n].clerk_id = c.id
        /\ ( /\ clerks[c.id].store_id = None
             /\ Sell(c, 1, s, 1) )
           => /\ resp'.reason # "Forbidden"
              /\ LET rec == most_recent_record(1, s) IN
                 (rec # None /\ inventory[rec].items_in_stock >= 1)
                 => /\ resp'.status = 201
                    /\ \E t \in DOMAIN transactions' \ DOMAIN transactions :
                         /\ transactions'[t].store_id = s
                         /\ transactions'[t].clerk_id = c.id
      ]_vars

\* the Clerk without a store holds a receipt in each store and a sale, and
\* the last request, by a Clerk of another store, was refused
C16_Witness ==
    /\ resp.status = 403
    /\ resp.reason = "Forbidden"
    /\ \A s \in StoreIds :
         \E i \in DOMAIN inventory :
            /\ inventory[i].store_id = s
            /\ clerks[inventory[i].clerk_id].store_id = None
    /\ \E t \in DOMAIN transactions :
         clerks[transactions[t].clerk_id].store_id = None

----------------------------------------------------------------------------
(* Properties of transactions (specification SpecTx) *)

\* C17: from its creation to its deletion a transaction keeps its
\* product_id, store_id, quantity_sold, selling_price_at_transaction and
\* total_revenue; in every reachable state each transaction has
\* quantity_sold > 0 and total_revenue = selling_price_at_transaction *
\* quantity_sold.
C17_TransactionImmutable ==
    /\ [](\A t \in DOMAIN transactions :
            /\ transactions[t].quantity_sold > 0
            /\ transactions[t].total_revenue
                = transactions[t].selling_price_at_transaction
                    * transactions[t].quantity_sold)
    /\ [][\A t \in DOMAIN transactions \cap DOMAIN transactions' :
            /\ transactions'[t].product_id = transactions[t].product_id
            /\ transactions'[t].store_id = transactions[t].store_id
            /\ transactions'[t].quantity_sold = transactions[t].quantity_sold
            /\ transactions'[t].selling_price_at_transaction
                = transactions[t].selling_price_at_transaction
            /\ transactions'[t].total_revenue = transactions[t].total_revenue
       ]_vars

\* a sale of more than one unit outlived a price change and the deletion
\* of the Clerk that recorded it
C17_Witness ==
    \E t \in DOMAIN transactions :
        /\ transactions[t].quantity_sold = MaxQty
        /\ transactions[t].clerk_id = None
        /\ products # << >>
        /\ transactions[t].selling_price_at_transaction
            # products[1].selling_price

----------------------------------------------------------------------------
(* Properties of failed requests (specification SpecErr) *)

\* C18: a request answered with an error (ValidationFailed, Forbidden,
\* NotFound, Conflict, Internal) leaves every table as it was; an update
\* of an inventory record, a store, an Admin or a Clerk that is rejected
\* at a later field persists none of the fields assigned before it.
C18_FailedRequestChangesNothing ==
    [][resp'.status >= 400
        => UNCHANGED <<accounts, catalog, inventory, transactions,
                       supply_requests>>]_vars

\* a profile update whose username was assigned in the session was
\* rejected at its email or password, and no account carries that username
C18_Witness ==
    /\ resp.op \in {"admin_put", "clerk_put"}
    /\ resp.status = 400
    /\ \A a \in DOMAIN admins : admins[a].username # "x"
    /\ \A k \in DOMAIN clerks : clerks[k].username # "x"
    /\ \E s \in DOMAIN stores : stores[s].name = "t"

----------------------------------------------------------------------------
(* Properties of deletion cascades (specification SpecCascade) *)

\* the rows of the three ledgers that reference a product or a store
product_referenced(product_id) ==
    \/ \E i \in DOMAIN inventory : inventory[i].product_id = product_id
    \/ \E i \in DOMAIN transactions : transactions[i].product_id = product_id
    \/ \E i \in DOMAIN supply_requests :
            supply_requests[i].product_id = product_id

store_referenced(store_id) ==
    \/ \E i \in DOMAIN inventory : inventory[i].store_id = store_id
    \/ \E i \in DOMAIN transactions : transactions[i].store_id = store_id
    \/ \E i \in DOMAIN supply_requests :
            supply_requests[i].store_id = store_id

\* C19: the Merchant's deletion of a product or a store that inventory
\* records, transactions or supply requests reference succeeds and removes
\* the product or store; every inventory record, transaction and supply
\* request references an existing product and an existing store; the
\* deletion of a Clerk or an Admin keeps every ledger row and changes only
\* the clerk or admin key of the rows that referenced the account.
C19_DeletionCascades ==
    /\ [](/\ \A i \in DOMAIN inventory :
                /\ inventory[i].product_id \in DOMAIN products
                /\ inventory[i].store_id \in DOMAIN stores
          /\ \A i \in DOMAIN transactions :
                /\ transactions[i].product_id \in DOMAIN products
                /\ transactions[i].store_id \in DOMAIN stores
          /\ \A i \in DOMAIN supply_requests :
                /\ supply_requests[i].product_id \in DOMAIN products
                /\ supply_requests[i].store_id \in DOMAIN stores)
    /\ [][/\ \A p \in DOMAIN products :
                ( product_referenced(p) /\ ProductDelete(Tok("merchant", 1), p) )
                => resp'.status = 204 /\ p \notin DOMAIN products'
          /\ \A s \in DOMAIN stores :
                ( store_referenced(s) /\ StoreDelete(Tok("merchant", 1), s) )
                => resp'.status = 204 /\ s \notin DOMAIN stores'
          /\ \A k \in DOMAIN clerks :
                ClerkDelete(Tok("merchant", 1), k)
                => /\ inventory' = [i \in DOMAIN inventory |->
                        [inventory[i] EXCEPT !.clerk_id =
                            IF @ = k THEN None ELSE @]]
                   /\ transactions' = [i \in DOMAIN transactions |->
                        [transactions[i] EXCEPT !.clerk_id =
                            IF @ = k THEN None ELSE @]]
                   /\ supply_requests' = [i \in DOMAIN supply_requests |->
                        [supply_requests[i] EXCEPT !.requested_by_clerk_id =
                            IF @ = k THEN None ELSE @]]
          /\ \A a \in DOMAIN admins :
                AdminDelete(Tok("merchant", 1), a)
                => /\ UNCHANGED <<inventory, transactions>>
                   /\ supply_requests' = [i \in DOMAIN supply_requests |->
                        [supply_requests[i] EXCEPT !.approved_by_admin_id =
                            IF @ = a THEN None ELSE @]]
         ]_vars

----------------------------------------------------------------------------
(* Properties of login (specification SpecLogin) *)

\* the account a login's email selects: the Merchant with that email, else
\* the Admin with it, else the Clerk with it
matched_account(email) ==
    LET with_email(table) == {i \in DOMAIN table : table[i].email = email}
    IN  IF with_email(merchants) # {}
        THEN [user_type |-> "merchant", row |-> merchants[CHOOSE i \in with_email(merchants) : TRUE]]
        ELSE IF with_email(admins) # {}
        THEN [user_type |-> "admin", row |-> admins[CHOOSE i \in with_email(admins) : TRUE]]
        ELSE IF with_email(clerks) # {}
        THEN [user_type |-> "clerk", row |-> clerks[CHOOSE i \in with_email(clerks) : TRUE]]
        ELSE [user_type |-> "none"]

well_formed_login(email, password) ==
    email # "" /\ password # "" /\ validate_email(email)

\* C20 as stated: a login whose email selects an account with is_active
\* false is answered AccountInactive and issues no token, whatever the
\* password.
C20_InactiveAccountAlwaysInactive ==
    [][\A email \in LoginEmails, password \in LoginPasswords :
        ( /\ well_formed_login(email, password)
          /\ matched_account(email).user_type # "none"
          /\ ~matched_account(email).row.is_active
          /\ Login(email, password) )
        => /\ resp'.reason = "AccountInactive"
           /\ tokens' = tokens
      ]_vars

\* C20: the account is looked up by email among the Merchants, then the
\* Admins, then the Clerks, and the password is verified against the first
\* kind that has the email only; a login with no such account or with a
\* wrong password is answered InvalidCredentials; a login with the right
\* password of an account whose is_active is false is answered
\* AccountInactive; neither issues a token; any other well-formed login
\* issues a token of the selected kind.
C20_LoginOutcomes ==
    [][\A email \in LoginEmails, password \in LoginPasswords :
        ( well_formed_login(email, password) /\ Login(email, password) )
        => LET acc == matched_account(email) IN
           IF acc.user_type = "none" \/ acc.row.password # password
           THEN /\ resp'.status = 401
                /\ resp'.reason = "InvalidCredentials"
                /\ tokens' = tokens
           ELSE IF ~acc.row.is_active
           THEN /\ resp'.status = 403
                /\ resp'.reason = "AccountInactive"
                /\ tokens' = tokens
           ELSE /\ resp'.status = 200
                /\ \E u \in tokens' : u.user_type = acc.user_type
                /\ \A u \in tokens' \ tokens : u.user_type = acc.user_type
      ]_vars

\* a login was answered AccountInactive, the inactive account holds no
\* token, and an Admin shares its email with the Merchant
C20_Witness ==
    /\ resp.op = "login"
    /\ resp.reason = "AccountInactive"
    /\ \E k \in DOMAIN clerks :
         /\ ~clerks[k].is_active
         /\ \A u \in tokens : ~(u.user_type = "clerk" /\ u.id = k)
    /\ \E a \in DOMAIN admins : admins[a].email = merchants[1].email

----------------------------------------------------------------------------
(* Properties of the tokens (specification SpecAuth) *)

\* C21: once a logout has presented a token, every later request that
\* presents the same token is refused: logout puts the token's jti in the
\* blacklist, no step removes a jti from the blacklist, and no handler
\* runs for a token whose jti is in the blacklist.
C21_LoggedOutTokenRejected ==
    [][/\ blacklist \subseteq blacklist'
       /\ \A c \in tokens :
            /\ Logout(c) => c.jti \in blacklist'
            /\ c.jti \in blacklist => ~(AuthRequest(c) \/ Logout(c))]_vars

\* a request presenting a logged-out access token was answered 401
C21_Witness ==
    /\ resp.op = "jwt" /\ resp.status = 401
    /\ \A c \in tokens : c.type = "access" => c.jti \in blacklist
    /\ \A c \in tokens : c.type = "refresh" => c.jti \notin blacklist
    /\ tokens # {}

\* the refresh token that a login issued together with the access token a
same_login(a, r) ==
    a.type = "access" /\ r.type = "refresh" /\ r.jti = a.jti + 1

\* C29: after a logout, the refresh token issued at the same login as the
\* revoked access token obtains no new access token.
C29_LogoutRevokesRefreshToken ==
    [][\A a \in tokens, r \in tokens :
         (same_login(a, r) /\ a.jti \in blacklist) => ~Refresh(r)]_vars

\* the account of the token c has is_active = false
inactive_account(c) ==
    /\ c.user_type = "clerk"
    /\ c.id \in DOMAIN clerks
    /\ ~clerks[c.id].is_active

\* C30: a request bearing a token of a deactivated account is rejected,
\* for access tokens and for refresh tokens.
C30_InactiveAccountRejected ==
    [][\A c \in tokens :
         (inactive_account(c) /\ (AuthRequest(c) \/ Refresh(c)))
            => resp'.status \in {401, 403}]_vars

----------------------------------------------------------------------------
(* Properties of the profile updates (specification SpecClerk) *)

\* C22: no request made with a Clerk's token changes that Clerk's own
\* is_active, and a self-update that supplies a different is_active does
\* not succeed.
C22_ClerkNeverTogglesItself ==
    [][\A c \in tokens, data \in ClerkBodies :
         (/\ c.user_type = "clerk"
          /\ c.id \in DOMAIN clerks
          /\ resp'.op = "clerk_put"
          /\ ClerkPut(c, None, data) \/ ClerkPut(c, c.id, data))
            => /\ clerks'[c.id].is_active = clerks[c.id].is_active
               /\ (/\ is_bool(data.is_active)
                   /\ (data.is_active = "true") # clerks[c.id].is_active)
                    => resp'.status # 200]_vars

----------------------------------------------------------------------------
(* Properties of the Admin's inventory updates (specification SpecInv) *)

\* C23: a request made with an Admin's token changes at most the
\* payment_status of one InventoryRecord, and only of a record whose
\* store_id is the store_id of the Admin; an Admin without a store and an
\* Admin of another store change no record.
C23_AdminPaysOwnStoreOnly ==
    [][\A c \in tokens, id \in DOMAIN inventory, data \in InvBodies :
         (/\ c.user_type = "admin"
          /\ resp'.op = "inventory_put"
          /\ InventoryPut(c, id, data))
            => /\ inventory' = [inventory EXCEPT ![id].payment_status =
                                    inventory'[id].payment_status]
               /\ inventory' # inventory
                    => /\ c.id \in DOMAIN admins
                       /\ admins[c.id].store_id = inventory[id].store_id]_vars

----------------------------------------------------------------------------
(* Properties of the reads (specification SpecRead) *)

\* the scope of a caller: the Merchant sees every row, an Admin with a
\* store the rows of that store, a Clerk the rows it owns
in_scope(c, row, owner) ==
    \/ c.user_type = "merchant"
    \/ /\ c.user_type = "admin"
       /\ c.id \in DOMAIN admins
       /\ admins[c.id].store_id # None
       /\ row.store_id = admins[c.id].store_id
    \/ c.user_type = "clerk" /\ owner = c.id

\* C24: a listing that answers 200 returns exactly the rows in the
\* caller's scope, and a by-id read answers 200 only for a row in the
\* caller's scope, for inventory records, transactions and supply requests.
C24_ReadsFollowScope ==
    [][\A c \in RecordReaders :
         /\ (resp'.op = "inventory_list" /\ InventoryList(c)
                /\ resp'.status = 200)
              => resp'.records = {i \in DOMAIN inventory :
                    in_scope(c, inventory[i], inventory[i].clerk_id)}
         /\ (resp'.op = "transaction_list" /\ TransactionList(c)
                /\ resp'.status = 200)
              => resp'.records = {i \in DOMAIN transactions :
                    in_scope(c, transactions[i], transactions[i].clerk_id)}
         /\ (resp'.op = "supply_request_list" /\ SupplyRequestList(c)
                /\ resp'.status = 200)
              => resp'.records = {i \in DOMAIN supply_requests :
                    in_scope(c, supply_requests[i],
                             supply_requests[i].requested_by_clerk_id)}
         /\ \A id \in DOMAIN inventory :
              (resp'.op = "inventory_get" /\ InventoryGet(c, id)
                /\ resp'.status = 200)
                => in_scope(c, inventory[id], inventory[id].clerk_id)
         /\ \A id \in DOMAIN transactions :
              (resp'.op = "transaction_get" /\ TransactionGet(c, id)
                /\ resp'.status = 200)
                => in_scope(c, transactions[id], transactions[id].clerk_id)
         /\ \A id \in DOMAIN supply_requests :
              (resp'.op = "supply_request_get" /\ SupplyRequestGet(c, id)
                /\ resp'.status = 200)
                => in_scope(c, supply_requests[id],
                            supply_requests[id].requested_by_clerk_id)]_vars

----------------------------------------------------------------------------
(* Properties of the Admins' stores (specification SpecAdmin) *)

\* C25: every Admin with a store_id references an existing Store of the
\* Admin's own Merchant, in every reachable state, and a step that changes
\* an Admin's store_id is a request made with the Merchant's token.
C25_AdminStoreOfItsMerchant ==
    /\ [](\A a \in DOMAIN admins :
            admins[a].store_id # None
                => /\ admins[a].store_id \in DOMAIN stores
                   /\ stores[admins[a].store_id].merchant_id
                        = admins[a].merchant_id)
    /\ [][\A c \in AdminCallers, id \in {None, 1, 2, 3}, data \in AdminBodies :
            (/\ resp'.op = "admin_put"
             /\ AdminPut(c, id, data)
             /\ \E a \in DOMAIN admins :
                    admins'[a].store_id # admins[a].store_id)
                => c.user_type = "merchant"]_vars

----------------------------------------------------------------------------
(* Properties of the supply request creation (specification SpecRestock) *)

\* the caller is a Clerk without a store
unassigned_clerk(c) ==
    c.user_type = "clerk" /\ c.id \in DOMAIN clerks
        /\ clerks[c.id].store_id = None

\* the supply request that a step has created for the caller c
created_request(c) ==
    LET id == seq.supply_requests
    IN  /\ id \notin DOMAIN supply_requests
        /\ DOMAIN supply_requests' = DOMAIN supply_requests \cup {id}
        /\ \A i \in DOMAIN supply_requests :
                supply_requests'[i] = supply_requests[i]
        /\ supply_requests'[id].status = "Pending"
        /\ supply_requests'[id].store_id = clerks[c.id].store_id
        /\ supply_requests'[id].store_id # None
        /\ supply_requests'[id].requested_by_clerk_id = c.id
        /\ supply_requests'[id].quantity_requested > 0

\* C26 as stated: every creation sent by a Clerk without a store is
\* answered Forbidden and creates nothing.
C26_UnassignedClerkForbidden ==
    [][\A c \in RestockCallers, p \in RestockProducts, q \in RestockQuantities :
         (/\ resp'.op = "supply_request_post"
          /\ SupplyRequestCreate(c, p, q, "new")
          /\ unassigned_clerk(c))
            => /\ resp'.status = 403
               /\ supply_requests' = supply_requests]_vars

\* C26: a creation sent by a Clerk without a store creates nothing, and is
\* answered Forbidden when its body names an existing product and a
\* positive quantity; a creation answered 201 adds one Pending request
\* with the caller's store_id, the caller as requested_by_clerk_id and a
\* positive quantity; any other answer creates nothing; and the status of
\* every supply request is Pending, Approved, Declined or Fulfilled.
C26_SupplyRequestCreation ==
    /\ [](\A i \in DOMAIN supply_requests :
            supply_requests[i].status \in Statuses)
    /\ [][\A c \in RestockCallers, p \in RestockProducts, q \in RestockQuantities :
            (/\ resp'.op = "supply_request_post"
             /\ SupplyRequestCreate(c, p, q, "new"))
               => /\ unassigned_clerk(c)
                    => /\ supply_requests' = supply_requests
                       /\ (q > 0 /\ p \in DOMAIN products)
                            => /\ resp'.status = 403
                               /\ resp'.reason = "Forbidden"
                  /\ resp'.status = 201 => created_request(c)
                  /\ resp'.status # 201
                        => supply_requests' = supply_requests]_vars

\* the Clerk without a store was answered Forbidden while another Clerk's
\* request stands as Pending
C26_Witness ==
    /\ resp.op = "supply_request_post"
    /\ resp.status = 403 /\ resp.reason = "Forbidden"
    /\ \E i \in DOMAIN supply_requests :
            /\ i > NSeedSR
            /\ supply_requests[i].status = "Pending"
            /\ supply_requests[i].store_id
                = clerks[supply_requests[i].requested_by_clerk_id].store_id

----------------------------------------------------------------------------
(* Properties of the onboarding (specification SpecOnboardFair) *)

\* C27: from the empty system, once the Merchant, the store, the Admin and
\* the Clerk are registered and the clerk updates are sent, some Clerk has
\* a store_id, so that its supply requests pass the store test.
C27_ClerkGetsAStore ==
    <>(\E k \in DOMAIN clerks : clerks[k].store_id # None)

----------------------------------------------------------------------------
(* Properties of the stock (specification SpecStock) *)

RECURSIVE total(_, _)
\* the sum of f over the finite set S
total(f, S) ==
    IF S = {} THEN 0
    ELSE LET x == CHOOSE y \in S : TRUE
         IN  f[x] + total(f, S \ {x})

\* the units that a step has sold out of record i: the quantity of the
\* transaction created in the step, when i was the most recent record of
\* the transaction's product and store
step_debit(i) ==
    LET created == {t \in DOMAIN transactions' \ DOMAIN transactions :
                        most_recent_record(transactions'[t].product_id,
                                           transactions'[t].store_id) = i}
    IN  total([t \in created |-> transactions'[t].quantity_sold], created)

\* the units missing from the records of a store and the units sold there
missing_units(s) ==
    LET rows == {i \in DOMAIN inventory : inventory[i].store_id = s}
    IN  total([i \in rows |-> inventory[i].quantity_received
                                - inventory[i].items_spoilt
                                - inventory[i].items_in_stock], rows)

sold_units(s) ==
    LET rows == {t \in DOMAIN transactions : transactions[t].store_id = s}
    IN  total([t \in rows |-> transactions[t].quantity_sold], rows)

====
